---- MODULE Spec2Model ----
(***************************************************************************)
(* Verification model of voxTool: the PointCloud / CT selection engine     *)
(* (model/pointcloud.py), the grid-map parser (model/gridmap_parser.py)    *)
(* and the centering loop of the controller (view/pyloc.py).               *)
(*                                                                         *)
(* A numpy array is modelled as [rows, ndim]: `rows` is the sequence of    *)
(* coordinate triples, `ndim` the number of array dimensions.  ndim is 2   *)
(* for an (n,3) array and 1 for the shape-(0,) array that np.array([])     *)
(* builds from an empty list.                                              *)
(***************************************************************************)
EXTENDS Integers, Sequences, FiniteSets, TLC

VARIABLES clouds, last,     \* PointCloud objects and the latest call on them
          ct, ctLast,       \* a CT object and the latest call on it
          gm, gmPc,         \* a GridMapParser and the position of parse() in it
          ctl, ctlPc,       \* a PylocControl and the position of its handler
          view, viewPc      \* the view-layer objects and the position of a pick

vars == <<clouds, last, ct, ctLast, gm, gmPc, ctl, ctlPc, view, viewPc>>

pcVars == <<clouds, last>>

ctVars == <<ct, ctLast>>

gmVars == <<gm, gmPc>>

ctlVars == <<ctl, ctlPc>>

viewVars == <<view, viewPc>>

PCFrame == UNCHANGED <<ctVars, gmVars, ctlVars, viewVars>>

CTFrame == UNCHANGED <<pcVars, gmVars, ctlVars, viewVars>>

GMFrame == UNCHANGED <<pcVars, ctVars, ctlVars, viewVars>>

CtlFrame == UNCHANGED <<pcVars, ctVars, gmVars, viewVars>>

ViewFrame == UNCHANGED <<pcVars, ctVars, gmVars, ctlVars>>

(***************************************************************************)
(* Bounds and input sets                                                   *)
(***************************************************************************)
MaxLen == 2

Universe == { <<0, 0, 0>>, <<1, 0, 0>>, <<3, 4, 0>> }

Centers == Universe \cup { <<2, 0, 0>>, <<0, 0, 3>> }

Radii == { 0, 1, 2, 4, 5, 6 }

PCQueries == { << <<0, 0, 0>>, 5 >>, << <<3, 4, 0>>, 1 >> }

RECURSIVE SeqsUpTo(_, _)
SeqsUpTo(S, n) ==
    IF n = 0 THEN { <<>> }
    ELSE LET shorter == SeqsUpTo(S, n - 1)
         IN  shorter \cup { Append(s, x) : s \in shorter, x \in S }

CoordSeqs == SeqsUpTo(Universe, MaxLen)

CoordArgs ==
    { << <<3, 4, 0>> >>, << <<0, 0, 0>>, <<0, 0, 0>> >>,
      << <<0, 0, 0>>, <<1, 0, 0>>, <<3, 4, 0>> >> }

(***************************************************************************)
(* numpy helpers                                                           *)
(***************************************************************************)
RECURSIVE SetToSeq(_)
SetToSeq(S) ==
    IF S = {} THEN <<>>
    ELSE LET x == CHOOSE y \in S : TRUE
         IN  <<x>> \o SetToSeq(S \ {x})

NpArray(list) == [rows |-> list, ndim |-> IF Len(list) = 0 THEN 1 ELSE 2]

EmptyN3 == [rows |-> <<>>, ndim |-> 2]

Array2D(list) == [rows |-> list, ndim |-> 2]

SelectRows(rows, mask) ==
    LET idx == { i \in 1..Len(rows) : mask[i] }
        RECURSIVE Pick(_)
        Pick(k) == IF k > Len(rows) THEN <<>>
                   ELSE IF k \in idx THEN <<rows[k]>> \o Pick(k + 1)
                   ELSE Pick(k + 1)
    IN  Pick(1)

Square(x) == x * x

SumSquares(p, q) ==
    Square(p[1] - q[1]) + Square(p[2] - q[2]) + Square(p[3] - q[3])

ISqrt(n) == CHOOSE k \in 0..n : k * k <= n /\ (k + 1) * (k + 1) > n

Abs(x) == IF x < 0 THEN -x ELSE x

Cityblock(p, q) == Abs(p[1] - q[1]) + Abs(p[2] - q[2]) + Abs(p[3] - q[3])

(***************************************************************************)
(* PointCloud (model/pointcloud.py)                                        *)
(***************************************************************************)
None == "None"

PointCloud(label, coordinates) == [label |-> label, coordinates |-> coordinates]

setify_coords(coordinates) == { coordinates[i] : i \in 1..Len(coordinates) }

setify(self) == setify_coords(self.coordinates.rows)

Ok(self, out) == [err |-> "none", self |-> self, out |-> out]

Raise(self, exc) == [err |-> exc, self |-> self, out |-> None]

clear(self) == [self EXCEPT !.coordinates = EmptyN3]

add_coordinates(self, coordinates) ==
    LET coord_set == setify_coords(coordinates)
    IN  [self EXCEPT !.coordinates = NpArray(SetToSeq(coord_set \cup setify(self)))]

remove_coordinates(self, coordinates) ==
    LET coord_set == setify_coords(coordinates)
    IN  [self EXCEPT !.coordinates = NpArray(SetToSeq(setify(self) \ coord_set))]

intersect(self, point_cloud) ==
    LET self_set == setify(self)
        other_set == setify(point_cloud)
        new_array == NpArray(SetToSeq(self_set \cap other_set))
    IN  PointCloud(self.label, new_array)

union_concatenate(self, point_cloud) ==
    PointCloud(self.label,
               NpArray(self.coordinates.rows \o point_cloud.coordinates.rows))

union(self, point_cloud) ==
    LET self_set == setify(self)
        other_set == setify(point_cloud)
        new_array == NpArray(SetToSeq(self_set \cup other_set))
    IN  PointCloud(self.label, new_array)

InRangeMask_inclusive(rows, location, range) ==
    [i \in 1..Len(rows) |-> ISqrt(SumSquares(rows[i], location)) <= range]

InRangeMask(rows, location, range) ==
    [i \in 1..Len(rows) |-> ISqrt(SumSquares(rows[i], location)) < range]

get_points_in_range(self, location, range) ==
    IF self.coordinates.ndim # 2
    THEN Raise(self, "ValueError")
    ELSE LET rows == self.coordinates.rows
         IN  Ok(self, Array2D(SelectRows(rows, InRangeMask(rows, location, range))))

IsolationMask_strict(rows) ==
    [j \in 1..Len(rows) |->
        \E i \in 1..Len(rows) : i # j /\ Cityblock(rows[i], rows[j]) < 1]

IsolationMask(rows) ==
    [j \in 1..Len(rows) |->
        \E i \in 1..Len(rows) : i # j /\ Cityblock(rows[i], rows[j]) <= 1]

remove_isolated_points(self) ==
    LET rows == self.coordinates.rows
    IN  IF self.coordinates.ndim # 2
        THEN { Raise(self, "ValueError") }
        ELSE IF Len(rows) = 0
        THEN { Raise(self, "IndexError"), Ok(self, None) }
        ELSE LET kept == SelectRows(rows, IsolationMask(rows))
             IN  { Ok([self EXCEPT !.coordinates = Array2D(kept)],
                      Len(rows) - Len(kept)) }

move_points_to(heap, self, coordinates, point_cloud) ==
    LET removed == [heap EXCEPT ![self] = remove_coordinates(heap[self], coordinates)]
    IN  [removed EXCEPT ![point_cloud] =
            add_coordinates(removed[point_cloud], coordinates)]

(***************************************************************************)
(* PointCloud operations as a state machine.  `clouds` holds the clouds a  *)
(* caller has: "a" and "b" built by the constructor, and "r", the new      *)
(* cloud returned by the latest union or intersect.  `last` records the    *)
(* latest call: its name, receiver, arguments, the exception raised (or    *)
(* "none") and the array a range query returned.                           *)
(***************************************************************************)
Slots == { "a", "b", "r" }

Built == { "a", "b" }

Label(s) == IF s = "a" THEN "A" ELSE "B"

Call(op, self, other, arg, err, out) ==
    [op |-> op, self |-> self, other |-> other, arg |-> arg, err |-> err, out |-> out]

Live(s) == s \in DOMAIN clouds

Returned(cloud) ==
    [s \in DOMAIN clouds \cup {"r"} |-> IF s = "r" THEN cloud ELSE clouds[s]]

NoCall == Call("__init__", None, None, None, "none", None)

Construct(ca, cb) ==
    [s \in Built |-> IF s = "a" THEN PointCloud(Label("a"), Array2D(ca))
                     ELSE PointCloud(Label("b"), Array2D(cb))]

CTIdle == ct = None /\ ctLast = None

GMIdle == gm = None /\ gmPc = None

CtlIdle == ctl = None /\ ctlPc = None

ViewIdle == view = None /\ viewPc = None

PCInit ==
    /\ \E ca \in CoordSeqs, cb \in CoordArgs : clouds = Construct(ca, cb)
    /\ last = NoCall
    /\ CTIdle
    /\ GMIdle
    /\ ViewIdle
    /\ CtlIdle

AlgebraInit ==
    /\ \E ca \in CoordSeqs, cb \in CoordSeqs : clouds = Construct(ca, cb)
    /\ last = NoCall
    /\ CTIdle
    /\ GMIdle
    /\ ViewIdle
    /\ CtlIdle

Clear(s) ==
    /\ Live(s)
    /\ clouds' = [clouds EXCEPT ![s] = clear(clouds[s])]
    /\ last' = Call("clear", s, None, None, "none", None)
    /\ PCFrame

AddCoordinates(s, coordinates) ==
    /\ Live(s)
    /\ clouds' = [clouds EXCEPT ![s] = add_coordinates(clouds[s], coordinates)]
    /\ last' = Call("add_coordinates", s, None, None, "none", None)
    /\ PCFrame

RemoveCoordinates(s, coordinates) ==
    /\ Live(s)
    /\ clouds' = [clouds EXCEPT ![s] = remove_coordinates(clouds[s], coordinates)]
    /\ last' = Call("remove_coordinates", s, None, None, "none", None)
    /\ PCFrame

Intersect(s, o) ==
    /\ Live(s) /\ Live(o)
    /\ clouds' = Returned(intersect(clouds[s], clouds[o]))
    /\ last' = Call("intersect", s, o, None, "none", None)
    /\ PCFrame

Union_in_place(s, o) ==
    /\ Live(s) /\ Live(o)
    /\ clouds' = [t \in DOMAIN clouds \cup {"r"} |->
                     IF t \in {s, "r"} THEN union(clouds[s], clouds[o])
                     ELSE clouds[t]]
    /\ last' = Call("union", s, o, None, "none", None)
    /\ PCFrame

Union(s, o) ==
    /\ Live(s) /\ Live(o)
    /\ clouds' = Returned(union(clouds[s], clouds[o]))
    /\ last' = Call("union", s, o, None, "none", None)
    /\ PCFrame

MovePointsTo(s, coordinates, o) ==
    /\ Live(s) /\ Live(o)
    /\ clouds' = move_points_to(clouds, s, coordinates, o)
    /\ last' = Call("move_points_to", s, o, None, "none", None)
    /\ PCFrame

GetPointsInRange(s, location, range) ==
    /\ Live(s)
    /\ LET res == get_points_in_range(clouds[s], location, range)
       IN  /\ clouds' = [clouds EXCEPT ![s] = res.self]
           /\ last' = Call("get_points_in_range", s, None, <<location, range>>,
                           res.err, res.out)
    /\ PCFrame

RemoveIsolatedPoints(s) ==
    /\ Live(s)
    /\ \E res \in remove_isolated_points(clouds[s]) :
          /\ clouds' = [clouds EXCEPT ![s] = res.self]
          /\ last' = Call("remove_isolated_points", s, None, None, res.err, res.out)
    /\ PCFrame

PCNext ==
    \/ \E s \in Slots : Clear(s)
    \/ \E s \in Slots, c \in CoordArgs : AddCoordinates(s, c)
    \/ \E s \in Slots, c \in CoordArgs : RemoveCoordinates(s, c)
    \/ \E s \in Slots : Intersect(s, "b")
    \/ \E s \in Slots : Union(s, "b")
    \/ \E s \in Built, o \in Built, c \in CoordArgs : MovePointsTo(s, c, o)
    \/ \E s \in Slots, q \in PCQueries : GetPointsInRange(s, q[1], q[2])
    \/ \E s \in Slots : RemoveIsolatedPoints(s)

SpecPC == PCInit /\ [][PCNext]_vars

AlgebraNext ==
    \/ \E s \in Built, o \in Built : Union(s, o)
    \/ \E s \in Built, o \in Built : Intersect(s, o)
    \/ \E s \in Slots : Clear(s)

SpecAlgebra == AlgebraInit /\ [][AlgebraNext]_vars

RangeInit ==
    /\ \E ca \in CoordSeqs : clouds = Construct(ca, <<>>)
    /\ last = NoCall
    /\ CTIdle
    /\ GMIdle
    /\ ViewIdle
    /\ CtlIdle

RangeNext ==
    \E c \in Centers, r \in Radii : GetPointsInRange("a", c, r)

SpecRange == RangeInit /\ [][RangeNext]_vars

(***************************************************************************)
(* Properties of PointCloud                                                *)
(***************************************************************************)
NoDuplicates(rows) ==
    \A i, j \in 1..Len(rows) : i # j => rows[i] # rows[j]

IsEmpty(cloud) == Len(cloud.coordinates.rows) = 0

\* C3: get_points_in_range(c, r) returns exactly the points of the cloud whose
\* squared Euclidean distance to c is strictly less than r squared (r >= 0):
\* none at distance exactly r, and none closer than r left out.
C3_RangeQueryStrict ==
    last.op = "get_points_in_range" =>
        LET rows == clouds[last.self].coordinates.rows
            c == last.arg[1]
            r == last.arg[2]
        IN  /\ last.err = "none"
            /\ last.out.rows =
                   SelectRows(rows, [i \in 1..Len(rows) |->
                                        SumSquares(rows[i], c) < r * r])

C3_Witness ==
    /\ last.op = "get_points_in_range"
    /\ last.arg[2] > 0
    /\ Len(last.out.rows) > 0
    /\ \E p \in setify(clouds[last.self]) :
          SumSquares(p, last.arg[1]) = last.arg[2] * last.arg[2]

\* C4: a.union(b) holds exactly the set union of the coordinates of a and b,
\* each once, and b.union(a) holds the same set of coordinates.
C4_UnionIsSetUnion ==
    last.op = "union" =>
        LET self == clouds[last.self]
            other == clouds[last.other]
            result == clouds["r"]
        IN  /\ setify(result) = setify(self) \cup setify(other)
            /\ NoDuplicates(result.coordinates.rows)
            /\ setify(union(other, self)) = setify(result)
            /\ NoDuplicates(union(other, self).coordinates.rows)

C4_Witness ==
    /\ last.op = "union"
    /\ last.self # last.other
    /\ ~NoDuplicates(clouds[last.self].coordinates.rows)
    /\ setify(clouds[last.self]) \cap setify(clouds[last.other]) # {}
    /\ setify(clouds[last.other]) \ setify(clouds[last.self]) # {}

\* C5: no cloud ever holds the same coordinate twice, from construction on.
C5_NoDuplicateCoordinates ==
    \A s \in DOMAIN clouds : NoDuplicates(clouds[s].coordinates.rows)

\* C6: union and intersect return a new cloud labelled like self and leave
\* self and the argument cloud as they were; clear empties the receiver in
\* place and touches no other cloud.
C6_UnionIntersectPure ==
    [][/\ last'.op \in {"union", "intersect"} =>
            /\ \A s \in Built : clouds'[s] = clouds[s]
            /\ clouds'["r"].label = clouds[last'.self].label
       /\ last'.op = "clear" =>
            /\ clouds'[last'.self].coordinates = EmptyN3
            /\ clouds'[last'.self].label = clouds[last'.self].label
            /\ \A s \in DOMAIN clouds \ {last'.self} : clouds'[s] = clouds[s]]_vars

C6_Witness ==
    /\ last.op = "union"
    /\ last.self # last.other
    /\ ~IsEmpty(clouds[last.self])
    /\ setify(clouds["r"]) # setify(clouds[last.self])
    /\ clouds["r"].label # clouds[last.other].label

\* C7: no operation applied to an empty cloud raises, however the cloud
\* became empty.
C7_EmptyCloudNeverRaises ==
    (last.op # "__init__" /\ IsEmpty(clouds[last.self])) => last.err = "none"

(***************************************************************************)
(* CT (model/pointcloud.py): the master cloud, the current selection and   *)
(* the confirmed electrode clouds.                                         *)
(***************************************************************************)
DefaultRange == 20

CTUniverse ==
    { <<0, 0, 0>>, <<3, 4, 0>>, <<12, 16, 0>>, <<30, 0, 0>>, <<31, 0, 0>> }

CTPicks == CTUniverse \cup { <<20, 0, 0>> }

LexLess(p, q) ==
    \/ p[1] < q[1]
    \/ p[1] = q[1] /\ p[2] < q[2]
    \/ p[1] = q[1] /\ p[2] = q[2] /\ p[3] < q[3]

RECURSIVE NonZero(_)
NonZero(mask) ==
    IF mask = {} THEN <<>>
    ELSE LET first == CHOOSE p \in mask : \A q \in mask \ {p} : LexLess(p, q)
         IN  <<first>> \o NonZero(mask \ {first})

empty_cloud(label) == PointCloud(label, EmptyN3)

CT(mask) ==
    [all_points |-> PointCloud("_ct", Array2D(NonZero(mask))),
     selected_points |-> empty_cloud("_selected"),
     confirmed_electrodes |-> <<>>]

select_points_accumulate(self, points) ==
    [self EXCEPT !.selected_points = add_coordinates(self.selected_points, points)]

select_points(self, points) ==
    [self EXCEPT !.selected_points =
        add_coordinates(clear(self.selected_points), points)]

select_points_near(self, point) ==
    LET res == get_points_in_range(self.all_points, point, DefaultRange)
    IN  IF res.err # "none" THEN Raise(self, res.err)
        ELSE Ok(select_points(self, res.out.rows), None)

ct_remove_isolated_points(self) ==
    { [res EXCEPT !.self = [self EXCEPT !.all_points = res.self]] :
        res \in remove_isolated_points(self.all_points) }

CTCall(op, arg, err, before) ==
    [op |-> op, arg |-> arg, err |-> err, before |-> before]

CTInit ==
    /\ \E mask \in SUBSET CTUniverse : ct = CT(mask)
    /\ ctLast = CTCall("__init__", None, "none", {})
    /\ clouds = <<>>
    /\ last = NoCall
    /\ GMIdle
    /\ ViewIdle
    /\ CtlIdle

SelectPointsNear(point) ==
    /\ LET res == select_points_near(ct, point)
       IN  /\ ct' = res.self
           /\ ctLast' = CTCall("select_points_near", point, res.err,
                               setify(ct.selected_points))
    /\ CTFrame

SelectPoints(points) ==
    /\ ct' = select_points(ct, points)
    /\ ctLast' = CTCall("select_points", points, "none", setify(ct.selected_points))
    /\ CTFrame

CTRemoveIsolatedPoints ==
    /\ \E res \in ct_remove_isolated_points(ct) :
           /\ ct' = res.self
           /\ ctLast' = CTCall("remove_isolated_points", None, res.err,
                               setify(ct.selected_points))
    /\ CTFrame

CTNext ==
    \/ \E point \in CTPicks : SelectPointsNear(point)
    \/ \E points \in CoordArgs : SelectPoints(points)
    \/ CTRemoveIsolatedPoints

SpecCT == CTInit /\ [][CTNext]_vars

\* C1: select_points_near(point) is a full replace: afterwards the selection
\* is exactly the master points the range query around `point` returns, no
\* coordinate of an earlier selection outside that range survives, and the
\* master cloud is unchanged.
C1_SelectNearReplaces ==
    [][ctLast'.op = "select_points_near" =>
          LET point == ctLast'.arg
              near == { q \in setify(ct.all_points) :
                          SumSquares(q, point) < DefaultRange * DefaultRange }
          IN  /\ ctLast'.err = "none"
              /\ setify(ct'.selected_points) = near
              /\ NoDuplicates(ct'.selected_points.coordinates.rows)
              /\ ct'.all_points = ct.all_points]_vars

C1_Witness ==
    /\ ctLast.op = "select_points_near"
    /\ ~IsEmpty(ct.selected_points)
    /\ ctLast.before \ setify(ct.selected_points) # {}
    /\ setify(ct.all_points) \ setify(ct.selected_points) # {}

(***************************************************************************)
(* GridMapParser (model/gridmap_parser.py).                                *)
(*                                                                         *)
(* A file is [header, lines]: `header` is lines[0].split(','), and each    *)
(* element of `lines` is line.split(',') of a later line, so a field is    *)
(* the text between two commas, padding included.  A field that int() is   *)
(* applied to is a token [isInt, val]; a range field "a:b" is the tuple    *)
(* of tokens that split(':') returns.  Python's parts[k] is parts[k + 1]   *)
(* here.                                                                   *)
(***************************************************************************)
MaxRows == 3

MaxParseCalls == 2

IntTok(n) == [isInt |-> TRUE, val |-> n]

BadTok == [isInt |-> FALSE, val |-> 0]

RangeField(a, b) == <<IntTok(a), IntTok(b)>>

Row(gridId, template, location, hemisphere, label, channel, gridElectrode) ==
    <<IntTok(gridId), template, location, hemisphere, label, channel, gridElectrode>>

Header(channel) ==
    <<"GridId", "Template", "Location", "Hemisphere", "Label", channel, "GridElectrode">>

EmptyLine == << "" >>

electrode ==
    [gridId |-> None, template |-> None, location |-> None, hemisphere |-> None,
     label |-> None, numberOfChannels |-> 0, channelIDs |-> None,
     contactsList |-> <<>>]

contact ==
    [channelID |-> None, localChannelIdx |-> None, globalChannelIdx |-> None,
     contactType |-> None]

GridMapParser(filename) ==
    [filename |-> filename, raw |-> None, channelIDsPresent |-> FALSE,
     contactTotal |-> 0, electrodeList |-> <<>>]

PyRange(start, stop) ==
    IF stop > start THEN [i \in 1..(stop - start) |-> start + i - 1] ELSE <<>>

IsIncomplete(parts) == Len(parts) < 7

IsDummy_never(parts) == FALSE

IsDummy(parts) == parts[3] = "NoWhere"

IsSkipped(parts) == IF IsIncomplete(parts) THEN TRUE ELSE IsDummy(parts)

ExpandRange_exclusive(bounds) == PyRange(bounds[1].val, bounds[2].val)

ExpandRange(bounds) == PyRange(bounds[1].val, bounds[2].val + 1)

RangeError(bounds) ==
    IF Len(bounds) < 2 THEN "IndexError"
    ELSE IF ~bounds[1].isInt \/ ~bounds[2].isInt THEN "ValueError"
    ELSE "none"

SetLast(list, e) == [list EXCEPT ![Len(list)] = e]

LastOf(list) == list[Len(list)]

ParseFailed(self, err) == [self |-> self, err |-> err, contactRange |-> <<>>]

parse_header(self) ==
    LET header == self.filename.header
    IN  IF Len(header) < 6 THEN [self |-> [self EXCEPT !.raw = self.filename],
                                 err |-> "IndexError"]
        ELSE [self |-> [self EXCEPT !.raw = self.filename,
                           !.channelIDsPresent =
                               IF header[6] = "ChannelID" THEN TRUE ELSE @],
              err |-> "none"]

parse_line_unchecked(self, parts) ==
    LET appended == [self EXCEPT !.electrodeList = Append(@, electrode)]
        named == [appended EXCEPT
                    !.electrodeList = SetLast(@,
                        [LastOf(@) EXCEPT !.gridId = parts[1].val,
                                          !.template = parts[2],
                                          !.location = parts[3],
                                          !.hemisphere = parts[4],
                                          !.label = parts[5],
                                          !.channelIDs = ExpandRange(parts[6])]),
                    !.channelIDsPresent = TRUE]
    IN  [self |-> named, err |-> "none",
         contactRange |-> PyRange(1, 1 + Len(ExpandRange(parts[6])))]

parse_line(self, parts) ==
    LET appended == [self EXCEPT !.electrodeList = Append(@, electrode)]
        named == [appended EXCEPT
                    !.electrodeList = SetLast(@,
                        [LastOf(@) EXCEPT !.gridId = parts[1].val,
                                          !.template = parts[2],
                                          !.location = parts[3],
                                          !.hemisphere = parts[4],
                                          !.label = parts[5]]),
                    !.channelIDsPresent = TRUE]
        withIDs == [named EXCEPT
                      !.electrodeList = SetLast(@,
                          [LastOf(@) EXCEPT !.channelIDs = ExpandRange(parts[6])])]
        contactRange == ExpandRange(parts[7])
    IN  IF ~parts[1].isInt THEN ParseFailed(appended, "ValueError")
        ELSE IF RangeError(parts[6]) # "none"
        THEN ParseFailed(named, RangeError(parts[6]))
        ELSE IF RangeError(parts[7]) # "none"
        THEN ParseFailed(withIDs, RangeError(parts[7]))
        ELSE IF Len(contactRange) # Len(LastOf(withIDs.electrodeList).channelIDs)
        THEN ParseFailed(withIDs, "AssertionError")
        ELSE [self |-> withIDs, err |-> "none", contactRange |-> contactRange]

parse_contact_zero_based(self, loopIdx) ==
    LET e == LastOf(self.electrodeList)
        c == [contact EXCEPT !.channelID = e.channelIDs[loopIdx + 1],
                             !.localChannelIdx = loopIdx,
                             !.globalChannelIdx = self.contactTotal,
                             !.contactType = e.template]
    IN  [self EXCEPT
           !.contactTotal = @ + 1,
           !.electrodeList = SetLast(@,
               [e EXCEPT !.numberOfChannels = @ + 1,
                         !.contactsList = Append(@, c)])]

parse_contact(self, loopIdx) ==
    LET total == self.contactTotal + 1
        e == LastOf(self.electrodeList)
        c == [contact EXCEPT
                !.channelID = IF self.channelIDsPresent
                              THEN e.channelIDs[loopIdx + 1] ELSE @,
                !.localChannelIdx = loopIdx,
                !.globalChannelIdx = total,
                !.contactType = e.template]
    IN  [self EXCEPT
           !.contactTotal = total,
           !.electrodeList = SetLast(@,
               [e EXCEPT !.numberOfChannels = @ + 1,
                         !.contactsList = Append(@, c)])]

(***************************************************************************)
(* Input files: the sample grid map of the module comment, and every file  *)
(* of at most MaxRows lines drawn from RowPool.                            *)
(***************************************************************************)
SampleRows(dummyLocation) ==
    << Row(0, "SpencerDepth1x10", "Amygdala", "Left", "LA",
           RangeField(1, 10), RangeField(1, 10)),
       Row(1, "SpencerDepth1x10", "HippocampusHead", "Left", "LHH",
           RangeField(11, 20), RangeField(1, 10)),
       Row(2, "SpencerDepth1x10", "HippocampusTail", "Left", "LHT",
           RangeField(21, 30), RangeField(1, 10)),
       Row(3, "SpencerDepth1x10", "OrbitofrontalCortex", "Left", "LOFC",
           RangeField(31, 40), RangeField(1, 10)),
       Row(4, "SpencerDepth1x6", "Cingulate", "Left", "LC",
           RangeField(41, 46), RangeField(1, 6)),
       Row(5, "SpencerDepth1x10", "Insula", "Left", "LI",
           RangeField(47, 56), RangeField(1, 10)),
       Row(6, "SpencerDepth1x6", "AnteriorFrontal", "Left", "LAF",
           RangeField(57, 62), RangeField(1, 6)),
       Row(7, "SpencerDepth1x6", "PosteriorFrontal", "Left", "LPF",
           RangeField(63, 68), RangeField(1, 6)),
       Row(8, "SpencerDepth1x8", "HippocampusTail", "Right", "RHT",
           RangeField(69, 76), RangeField(1, 8)),
       Row(9, "SpencerDepth1x8", "OrbitofrontalCortex", "Right", "ROFC",
           RangeField(77, 84), RangeField(1, 8)),
       Row(10, "SpencerDepth1x6", "Cingulate", "Right", "RC",
           RangeField(85, 90), RangeField(1, 6)),
       Row(11, "SpencerDepth1x10", "Insula", "Right", "RI",
           RangeField(91, 100), RangeField(1, 10)),
       Row(12, "SpencerDepth1x6", "InferiorTemporal", "Right", "RIT",
           RangeField(101, 106), RangeField(1, 6)),
       Row(13, "SpencerDepth1x6", "SuperiorTemporal", "Right", "RST",
           RangeField(107, 112), RangeField(1, 6)),
       Row(14, "Dummy1x1", dummyLocation, "Left", "DMY",
           RangeField(128, 128), RangeField(1, 1)),
       EmptyLine >>

SampleFile == [header |-> Header("Channel"), lines |-> SampleRows("NoWhere")]

SamplePadded ==
    [header |-> Header("  Channel"), lines |-> SampleRows("          NoWhere")]

RowPool ==
    { Row(0, "SpencerDepth1x10", "Amygdala", "Left", "LA",
          RangeField(1, 3), RangeField(1, 3)),
      Row(1, "SpencerDepth1x6", "Cingulate", "Right", "RC",
          RangeField(11, 12), RangeField(1, 2)),
      Row(14, "Dummy1x1", "NoWhere", "Left", "DMY",
          RangeField(128, 128), RangeField(1, 1)),
      EmptyLine,
      Row(2, "SpencerDepth1x8", "Insula", "Left", "LI",
          RangeField(4, 6), RangeField(1, 2)),
      Row(3, "SpencerDepth1x8", "Insula", "Right", "RI",
          <<BadTok, IntTok(3)>>, RangeField(1, 3)),
      <<BadTok, "SpencerDepth1x6", "Cingulate", "Left", "LC",
        RangeField(1, 2), RangeField(1, 2)>> }

Headers == { Header("ChannelID"), Header("Channel"), << "" >> }

Files ==
    { SampleFile, SamplePadded }
        \cup { [header |-> h, lines |-> l] :
                  h \in Headers, l \in SeqsUpTo(RowPool, MaxRows) }

(***************************************************************************)
(* parse() as a state machine: gmPc.pc is "idle" outside parse(), "lines"  *)
(* at the head of the loop over lines (lineIdx is the next line),          *)
(* "contacts" at the head of the loop over contactRange (loopIdx is the    *)
(* next index), "raised" once an exception left parse().                   *)
(***************************************************************************)
Control(pc, lineIdx, contactRange, loopIdx, err, calls) ==
    [pc |-> pc, lineIdx |-> lineIdx, contactRange |-> contactRange,
     loopIdx |-> loopIdx, err |-> err, calls |-> calls]

GMInit ==
    /\ \E f \in Files : gm = GridMapParser(f)
    /\ gmPc = Control("idle", 0, <<>>, 0, "none", 0)
    /\ clouds = <<>>
    /\ last = NoCall
    /\ CTIdle
    /\ CtlIdle
    /\ ViewIdle

ParseBegin ==
    /\ gmPc.pc = "idle"
    /\ gmPc.calls < MaxParseCalls
    /\ LET res == parse_header(gm)
       IN  /\ gm' = res.self
           /\ gmPc' = Control(IF res.err = "none" THEN "lines" ELSE "raised",
                              1, <<>>, 0, res.err, gmPc.calls + 1)
    /\ GMFrame

ParseSkipLine_counting ==
    /\ gmPc.pc = "lines"
    /\ gmPc.lineIdx <= Len(gm.raw.lines)
    /\ IsSkipped(gm.raw.lines[gmPc.lineIdx])
    /\ gmPc' = [gmPc EXCEPT !.lineIdx = @ + 1]
    /\ gm' = [gm EXCEPT !.contactTotal = @ + 1]
    /\ GMFrame

ParseSkipLine ==
    /\ gmPc.pc = "lines"
    /\ gmPc.lineIdx <= Len(gm.raw.lines)
    /\ IsSkipped(gm.raw.lines[gmPc.lineIdx])
    /\ gmPc' = [gmPc EXCEPT !.lineIdx = @ + 1]
    /\ UNCHANGED gm
    /\ GMFrame

ParseLine ==
    /\ gmPc.pc = "lines"
    /\ gmPc.lineIdx <= Len(gm.raw.lines)
    /\ LET parts == gm.raw.lines[gmPc.lineIdx]
           res == parse_line(gm, parts)
       IN  /\ ~IsSkipped(parts)
           /\ gm' = res.self
           /\ gmPc' = [gmPc EXCEPT
                          !.pc = IF res.err = "none" THEN "contacts" ELSE "raised",
                          !.contactRange = res.contactRange,
                          !.loopIdx = 0,
                          !.err = res.err]
    /\ GMFrame

ParseContact ==
    /\ gmPc.pc = "contacts"
    /\ gmPc.loopIdx < Len(gmPc.contactRange)
    /\ gm' = parse_contact(gm, gmPc.loopIdx)
    /\ gmPc' = [gmPc EXCEPT !.loopIdx = @ + 1]
    /\ GMFrame

ParseEndLine ==
    /\ gmPc.pc = "contacts"
    /\ gmPc.loopIdx = Len(gmPc.contactRange)
    /\ gmPc' = [gmPc EXCEPT !.pc = "lines", !.lineIdx = @ + 1,
                            !.contactRange = <<>>, !.loopIdx = 0]
    /\ UNCHANGED gm
    /\ GMFrame

ParseReturn ==
    /\ gmPc.pc = "lines"
    /\ gmPc.lineIdx > Len(gm.raw.lines)
    /\ gmPc' = [gmPc EXCEPT !.pc = "idle"]
    /\ UNCHANGED gm
    /\ GMFrame

GMNext ==
    \/ ParseBegin
    \/ ParseSkipLine
    \/ ParseLine
    \/ ParseContact
    \/ ParseEndLine
    \/ ParseReturn

SpecGM == GMInit /\ [][GMNext]_vars

(***************************************************************************)
(* Properties of GridMapParser                                             *)
(***************************************************************************)
RECURSIVE AllContacts(_)
AllContacts(electrodes) ==
    IF Len(electrodes) = 0 THEN <<>>
    ELSE AllContacts(SubSeq(electrodes, 1, Len(electrodes) - 1))
            \o LastOf(electrodes).contactsList

RECURSIVE KeptRows(_, _)
KeptRows(lines, n) ==
    IF n = 0 THEN <<>>
    ELSE IF IsSkipped(lines[n]) THEN KeptRows(lines, n - 1)
    ELSE Append(KeptRows(lines, n - 1), lines[n])

ParsedFresh == gmPc.pc = "idle" /\ gmPc.calls = 1

SampleParsed == ParsedFresh /\ gm.filename = SampleFile

MaxIterations == 2

CtlUniverse == { <<0, 0, 0>>, <<1, 0, 0>>, <<2, 0, 0>>, <<6, 0, 0>> }

CtlPicks == CtlUniverse \cup { <<4, 0, 0>> }

CtlRadii == { 2, 3 }

Voxel(p) == [sum |-> p, n |-> 1]

RECURSIVE SumOf(_)
SumOf(S) ==
    IF S = {} THEN <<0, 0, 0>>
    ELSE LET p == CHOOSE q \in S : TRUE
             rest == SumOf(S \ {p})
         IN  <<p[1] + rest[1], p[2] + rest[2], p[3] + rest[3]>>

selection_center(scan) ==
    [sum |-> SumOf(scan.selection), n |-> Cardinality(scan.selection)]

WithinRadius(p, c, radius) ==
    /\ c.n > 0
    /\ Square(p[1] * c.n - c.sum[1]) + Square(p[2] * c.n - c.sum[2])
          + Square(p[3] * c.n - c.sum[3]) < Square(radius * c.n)

scan_select_points_near(scan, point, radius) ==
    [scan EXCEPT !.selection = { p \in scan.points : WithinRadius(p, point, radius) }]

PylocControl(points) ==
    [ct |-> [points |-> points, selection |-> {}],
     selected_coordinate |-> Voxel(<<0, 0, 0>>)]

CtlControl(pc, op, i, iterations, radius, entry) ==
    [pc |-> pc, op |-> op, i |-> i, iterations |-> iterations,
     radius |-> radius, entry |-> entry]

CtlInit ==
    /\ \E points \in SUBSET CtlUniverse : ctl = PylocControl(points)
    /\ ctlPc = CtlControl("idle", "__init__", 0, 0, 0, None)
    /\ clouds = <<>>
    /\ last = NoCall
    /\ CTIdle
    /\ GMIdle
    /\ ViewIdle

ScanSelectPointsNear(coordinate, radius) ==
    /\ ctlPc.pc = "idle"
    /\ ctl' = [ctl EXCEPT
                 !.ct = scan_select_points_near(@, Voxel(coordinate), radius)]
    /\ ctlPc' = CtlControl("idle", "select_points_near", 0, 0, radius, None)
    /\ CtlFrame

CenterSelectionBegin(iterations, radius) ==
    /\ ctlPc.pc = "idle"
    /\ ctlPc' = CtlControl("center_selection", "center_selection", 0, iterations,
                           radius, ctl)
    /\ UNCHANGED ctl
    /\ CtlFrame

CenterSelectionRound_select_first ==
    /\ ctlPc.pc = "center_selection"
    /\ ctlPc.i < ctlPc.iterations
    /\ LET selected == scan_select_points_near(ctl.ct, ctl.selected_coordinate,
                                               ctlPc.radius)
       IN  ctl' = [ctl EXCEPT !.ct = selected,
                              !.selected_coordinate = selection_center(selected)]
    /\ ctlPc' = [ctlPc EXCEPT !.i = @ + 1]
    /\ CtlFrame

CenterSelectionRound ==
    /\ ctlPc.pc = "center_selection"
    /\ ctlPc.i < ctlPc.iterations
    /\ LET center == selection_center(ctl.ct)
       IN  ctl' = [ctl EXCEPT
                     !.selected_coordinate = center,
                     !.ct = scan_select_points_near(@, center, ctlPc.radius)]
    /\ ctlPc' = [ctlPc EXCEPT !.i = @ + 1]
    /\ CtlFrame

CenterSelectionReturn ==
    /\ ctlPc.pc = "center_selection"
    /\ ctlPc.i >= ctlPc.iterations
    /\ ctlPc' = [ctlPc EXCEPT !.pc = "idle"]
    /\ UNCHANGED ctl
    /\ CtlFrame

CtlNext ==
    \/ \E c \in CtlPicks, r \in CtlRadii : ScanSelectPointsNear(c, r)
    \/ \E n \in 0..MaxIterations, r \in CtlRadii : CenterSelectionBegin(n, r)
    \/ CenterSelectionRound
    \/ CenterSelectionReturn

SpecCtl == CtlInit /\ [][CtlNext]_vars

\* C2: center_selection(N, radius) runs exactly N rounds; each round sets
\* selected_coordinate to the centroid of the current selection and then
\* replaces the selection with the master points within radius of it.  So
\* on return, for N >= 1 the selection is the points within radius of
\* selected_coordinate, and for N = 0 selection and selected_coordinate are
\* as they were at the call.
C2_CenterSelectionRounds ==
    /\ [](ctlPc.pc = "center_selection" => ctlPc.i <= ctlPc.iterations)
    /\ []((ctlPc.pc = "idle" /\ ctlPc.op = "center_selection") =>
            /\ ctlPc.i = ctlPc.iterations
            /\ ctlPc.iterations >= 1 =>
                  ctl.ct.selection =
                      { p \in ctl.ct.points :
                          WithinRadius(p, ctl.selected_coordinate, ctlPc.radius) }
            /\ ctlPc.iterations = 0 => ctl = ctlPc.entry)
    /\ [][(ctlPc.pc = "center_selection" /\ ctlPc'.i # ctlPc.i) =>
            /\ ctlPc'.i = ctlPc.i + 1
            /\ ctl'.selected_coordinate = selection_center(ctl.ct)
            /\ ctl'.ct.selection =
                  { p \in ctl.ct.points :
                      WithinRadius(p, ctl'.selected_coordinate, ctlPc.radius) }
            /\ ctl'.ct.points = ctl.ct.points]_vars
    /\ [][(ctlPc.pc = "center_selection" /\ ctlPc'.pc = "idle") =>
            ctlPc.i = ctlPc.iterations /\ ctl' = ctl]_vars

C2_Witness ==
    /\ ctlPc.pc = "idle"
    /\ ctlPc.op = "center_selection"
    /\ ctlPc.iterations = 2
    /\ ctl.ct.selection # ctlPc.entry.ct.selection
    /\ ctl.ct.selection # {}
    /\ ctl.selected_coordinate.n > 1

C2_WitnessZero ==
    /\ ctlPc.pc = "idle"
    /\ ctlPc.op = "center_selection"
    /\ ctlPc.iterations = 0
    /\ ctl.ct.selection # {}


(***************************************************************************)
(* Skipped rows, the header's sixth column and rows that abort parse()     *)
(***************************************************************************)
\* The lines loop run on `rows` alone, from parser state `self`: each row
\* goes through parse_line and then through parse_contact for each index
\* of its contact range; the first row that raises ends the run.
RECURSIVE ParseContacts(_, _, _)
ParseContacts(self, loopIdx, n) ==
    IF loopIdx >= n THEN self
    ELSE ParseContacts(parse_contact(self, loopIdx), loopIdx + 1, n)

RECURSIVE ParseRows(_, _, _)
ParseRows(self, rows, k) ==
    IF k > Len(rows) THEN self
    ELSE LET res == parse_line(self, rows[k])
         IN  IF res.err # "none" THEN res.self
             ELSE ParseRows(ParseContacts(res.self, 0, Len(res.contactRange)),
                            rows, k + 1)

HeaderRead == parse_header(GridMapParser(gm.filename)).self

FirstCall == gmPc.calls = 1 /\ Len(gm.filename.header) >= 6

\* C11: a row with fewer than 7 fields or with location NoWhere is skipped
\* without ending parse(): the step over it changes nothing of the parser,
\* and at every point between rows (and when parse() raised) the electrodes
\* and contactTotal are those of parsing the kept rows alone.
C11_SkippedRowsLeaveNoTrace ==
    /\ (FirstCall /\ gmPc.pc \in {"lines", "idle"}) =>
          LET ref == ParseRows(HeaderRead,
                               KeptRows(gm.raw.lines, gmPc.lineIdx - 1), 1)
          IN  /\ gm.electrodeList = ref.electrodeList
              /\ gm.contactTotal = ref.contactTotal
              /\ gmPc.err = "none"
    /\ (FirstCall /\ gmPc.pc = "raised") =>
          LET ref == ParseRows(HeaderRead,
                               KeptRows(gm.raw.lines, gmPc.lineIdx), 1)
          IN  /\ gm.electrodeList = ref.electrodeList
              /\ gm.contactTotal = ref.contactTotal

C11_Witness ==
    /\ FirstCall
    /\ gmPc.pc = "idle"
    /\ Len(gm.raw.lines) = 3
    /\ ~IsSkipped(gm.raw.lines[1])
    /\ IsIncomplete(gm.raw.lines[2])
    /\ ~IsSkipped(gm.raw.lines[3])
    /\ Len(gm.electrodeList) = 2
    /\ gm.electrodeList[2].contactsList[1].globalChannelIdx = 4

C11_WitnessDummy ==
    /\ FirstCall
    /\ gmPc.pc = "idle"
    /\ Len(gm.raw.lines) = 2
    /\ ~IsIncomplete(gm.raw.lines[1])
    /\ IsDummy(gm.raw.lines[1])
    /\ Len(gm.electrodeList) = 1


\* C12: the header's sixth column name decides: with ChannelID the parser
\* has channelIDsPresent set, every electrode has its channelIDs and every
\* contact its channelID; with any other name channelIDsPresent stays
\* false, channelIDs stays unset and every contact's channelID stays null.
C12_HeaderDecidesChannelIDs ==
    (FirstCall /\ gmPc.pc = "idle") =>
        LET all == AllContacts(gm.electrodeList)
            es == gm.electrodeList
        IN  IF gm.filename.header[6] = "ChannelID"
            THEN /\ gm.channelIDsPresent
                 /\ \A k \in 1..Len(es) :
                       Len(es[k].channelIDs) = Len(es[k].contactsList)
                 /\ \A i \in 1..Len(all) : all[i].channelID \in Int
            ELSE /\ ~gm.channelIDsPresent
                 /\ \A k \in 1..Len(es) : es[k].channelIDs = None
                 /\ \A i \in 1..Len(all) : all[i].channelID = None

\* A kept row that the claim calls malformed: a range bound that is not an
\* integer, or a channel range and a contact range of different lengths.
BadRange(bounds) == ~bounds[1].isInt \/ ~bounds[2].isInt

bounds_differ(parts) ==
    /\ ~BadRange(parts[6])
    /\ ~BadRange(parts[7])
    /\ parts[6][2].val - parts[6][1].val # parts[7][2].val - parts[7][1].val

AbortingRow(parts) ==
    /\ ~IsSkipped(parts)
    /\ parts[1].isInt
    /\ \/ BadRange(parts[6])
       \/ BadRange(parts[7])
       \/ bounds_differ(parts)

\* C13: a kept row with a non-integer range bound or with ranges of
\* different lengths makes parse() raise at that row: the step that reads
\* it ends in an exception, parse() never gets past such a row, and once it
\* has raised no later row is read.
C13_MalformedRowAborts ==
    /\ [](FirstCall =>
            /\ \A k \in 1..(gmPc.lineIdx - 1) : ~AbortingRow(gm.raw.lines[k])
            /\ gmPc.pc = "contacts" => ~AbortingRow(gm.raw.lines[gmPc.lineIdx]))
    /\ [][(gmPc.pc = "lines" /\ gmPc.calls = 1
              /\ gmPc.lineIdx <= Len(gm.raw.lines)
              /\ AbortingRow(gm.raw.lines[gmPc.lineIdx]))
            => (gmPc'.pc = "raised" /\ gmPc'.err # "none"
                  /\ gmPc'.lineIdx = gmPc.lineIdx)]_vars
    /\ [][gmPc.pc = "raised" => (gm' = gm /\ gmPc' = gmPc)]_vars

C13_Witness ==
    /\ FirstCall
    /\ gmPc.pc = "raised"
    /\ gmPc.err = "AssertionError"
    /\ gmPc.lineIdx = 2
    /\ Len(gm.raw.lines) = 3
    /\ ~IsSkipped(gm.raw.lines[3])
    /\ gm.contactTotal > 0

\* C14: when parse() raised at row k, electrodeList and contactTotal hold
\* exactly the electrodes and contacts of the rows parsed before row k, and
\* no electrode for row k is in electrodeList.
C14_AbortLeavesNoPartialElectrode ==
    (FirstCall /\ gmPc.pc = "raised"
        /\ AbortingRow(gm.raw.lines[gmPc.lineIdx])) =>
        LET ref == ParseRows(HeaderRead,
                             KeptRows(gm.raw.lines, gmPc.lineIdx - 1), 1)
        IN  /\ gm.electrodeList = ref.electrodeList
            /\ gm.contactTotal = ref.contactTotal


(***************************************************************************)
(* PylocControl.try_recover_state (view/pyloc.py), called at the end of    *)
(* __init__ while self.ct is still None.  ctl is the controller: `ct` is   *)
(* self.ct ([isNone |-> TRUE] for None), whose load, set_threshold and     *)
(* from_dict belong to the CT of model/scan.py and are taken from the      *)
(* specification: each either does what its contract says or raises.       *)
(* ctlPc holds the position in the handler, the files on disk, and the     *)
(* sequence `trace` of the calls and dialogs the handler has made.         *)
(***************************************************************************)
ConfigThreshold == "ct_threshold"

SavedThresholds == {ConfigThreshold, "saved_threshold"}

SavedLeads == { {}, {"A1"}, {"A1", "B1"} }

NoCT ==
    [isNone |-> TRUE, filename |-> "", loaded |-> FALSE, threshold |-> "",
     leads |-> {}]

ct_load(filename, threshold) ==
    [isNone |-> FALSE, filename |-> filename, loaded |-> TRUE,
     threshold |-> threshold, leads |-> {}]

ct_set_threshold(scan, threshold) == [scan EXCEPT !.threshold = threshold]

ct_from_dict(scan, leads) == [scan EXCEPT !.leads = leads]

RecoverControl(pc, autosave, state, ctFileExists, trace) ==
    [pc |-> pc, autosave |-> autosave, state |-> state,
     ctFileExists |-> ctFileExists, trace |-> trace]

RecoverInit ==
    /\ ctl = [ct |-> NoCT, save_enabled |-> FALSE]
    /\ \E autosave \in {"absent", "corrupt", "ok"}, exists \in BOOLEAN,
          threshold \in SavedThresholds, leads \in SavedLeads :
          ctlPc = RecoverControl("start", autosave,
                     [ct_file |-> "scan.nii", threshold |-> threshold,
                      leads |-> leads],
                     exists, <<>>)
    /\ clouds = <<>>
    /\ last = NoCall
    /\ CTIdle
    /\ GMIdle
    /\ ViewIdle

Goto(pc, event) == [ctlPc EXCEPT !.pc = pc, !.trace = Append(@, event)]

\* os.path.exists(AUTOSAVE_FILE) and json.load
RecoverOpen ==
    /\ ctlPc.pc = "start"
    /\ ctlPc' = IF ctlPc.autosave = "absent" THEN Goto("done", "no_autosave")
                ELSE IF ctlPc.autosave = "corrupt" THEN Goto("except", "json_error")
                ELSE Goto("question", "json_load")
    /\ UNCHANGED ctl
    /\ CtlFrame

RecoverQuestion(reply) ==
    /\ ctlPc.pc = "question"
    /\ ctlPc' = IF reply THEN Goto("check_ct", "yes") ELSE Goto("done", "no")
    /\ UNCHANGED ctl
    /\ CtlFrame

RecoverCheckCT_unchecked ==
    /\ ctlPc.pc = "check_ct"
    /\ ctlPc' = Goto("load_ct", "ct_found")
    /\ UNCHANGED ctl
    /\ CtlFrame

RecoverCheckCT ==
    /\ ctlPc.pc = "check_ct"
    /\ ctlPc' = IF ctlPc.ctFileExists THEN Goto("load_ct", "ct_found")
                ELSE Goto("done", "warn_ct_not_found")
    /\ UNCHANGED ctl
    /\ CtlFrame

\* load_ct: self.ct = CT(config), then self.ct.load(filename, ct_threshold)
RecoverLoadCT(ok) ==
    /\ ctlPc.pc = "load_ct"
    /\ ctl' = [ctl EXCEPT
                 !.ct = IF ok /\ ctlPc.ctFileExists
                        THEN ct_load(ctlPc.state.ct_file, ConfigThreshold)
                        ELSE [NoCT EXCEPT !.isNone = FALSE]]
    /\ ctlPc' = IF ok /\ ctlPc.ctFileExists
                THEN Goto("set_threshold", "load_ct")
                ELSE Goto("except", "load_error")
    /\ CtlFrame

RecoverSetThreshold(ok) ==
    /\ ctlPc.pc = "set_threshold"
    /\ ctl' = IF ok THEN [ctl EXCEPT
                            !.ct = ct_set_threshold(@, ctlPc.state.threshold)]
              ELSE ctl
    /\ ctlPc' = IF ok THEN Goto("from_dict", "set_threshold")
                ELSE Goto("except", "threshold_error")
    /\ CtlFrame

RecoverFromDict(ok) ==
    /\ ctlPc.pc = "from_dict"
    /\ ctl' = IF ok THEN [ctl EXCEPT !.ct = ct_from_dict(@, ctlPc.state.leads)]
              ELSE ctl
    /\ ctlPc' = IF ok THEN Goto("update_ui", "from_dict")
                ELSE Goto("except", "from_dict_error")
    /\ CtlFrame

RecoverUpdateUI ==
    /\ ctlPc.pc = "update_ui"
    /\ ctl' = [ctl EXCEPT !.save_enabled = TRUE]
    /\ ctlPc' = Goto("done", "update_ui")
    /\ CtlFrame

RecoverExcept ==
    /\ ctlPc.pc = "except"
    /\ ctlPc' = Goto("done", "warn_failed")
    /\ UNCHANGED ctl
    /\ CtlFrame

RecoverNext ==
    \/ RecoverOpen
    \/ \E reply \in BOOLEAN : RecoverQuestion(reply)
    \/ RecoverCheckCT
    \/ \E ok \in BOOLEAN : RecoverLoadCT(ok)
    \/ \E ok \in BOOLEAN : RecoverSetThreshold(ok)
    \/ \E ok \in BOOLEAN : RecoverFromDict(ok)
    \/ RecoverUpdateUI
    \/ RecoverExcept

SpecRecover == RecoverInit /\ [][RecoverNext]_vars

Has(trace, event) == \E i \in 1..Len(trace) : trace[i] = event


\* C17: the saved leads are replayed only after the user accepted, the CT
\* file was found, the CT was loaded and the saved threshold applied, in
\* that order; when the user declines or the CT file is gone, no CT is
\* loaded, no lead state changes, and a missing file is reported.
C17_ReplayOnlyAfterLoad ==
    LET trace == ctlPc.trace
    IN  /\ Has(trace, "from_dict") =>
              /\ SubSeq(trace, 1, 6) =
                    <<"json_load", "yes", "ct_found", "load_ct",
                      "set_threshold", "from_dict">>
              /\ ctl.ct.leads = ctlPc.state.leads
        /\ ctlPc.pc = "from_dict" =>
              /\ ctl.ct.loaded
              /\ ctl.ct.filename = ctlPc.state.ct_file
              /\ ctl.ct.threshold = ctlPc.state.threshold
        /\ (Has(trace, "yes") /\ ~ctlPc.ctFileExists /\ ctlPc.pc = "done") =>
              Has(trace, "warn_ct_not_found")
        /\ (Has(trace, "no") \/ Has(trace, "warn_ct_not_found")
               \/ (Has(trace, "yes") /\ ~ctlPc.ctFileExists)) =>
              /\ ctl.ct = NoCT
              /\ ~ctl.save_enabled
              /\ ~Has(trace, "load_ct")
              /\ ~Has(trace, "from_dict")

C17_Witness ==
    /\ ctlPc.pc = "done"
    /\ Has(ctlPc.trace, "from_dict")
    /\ ctl.ct.leads = {"A1", "B1"}
    /\ ctl.ct.threshold # ConfigThreshold

C17_WitnessMissing ==
    /\ ctlPc.pc = "done"
    /\ Has(ctlPc.trace, "warn_ct_not_found")


(***************************************************************************)
(* PointCloud.remove_isolated_points                                       *)
(***************************************************************************)
IsolatedNext ==
    \/ \E s \in Built, c \in CoordArgs : AddCoordinates(s, c)
    \/ \E s \in Built, c \in CoordArgs : RemoveCoordinates(s, c)
    \/ \E s \in Built : Clear(s)
    \/ \E s \in Built : RemoveIsolatedPoints(s)

SpecIsolated == PCInit /\ [][IsolatedNext]_vars

HasOtherPointNear(rows, i) ==
    \E j \in 1..Len(rows) :
        /\ j # i
        /\ Abs(rows[j][1] - rows[i][1]) + Abs(rows[j][2] - rows[i][2])
              + Abs(rows[j][3] - rows[i][3]) <= 1

\* C20: remove_isolated_points() leaves exactly the points (rows) of the
\* prior cloud that had another point of it at cityblock distance at most
\* 1, in their order, and touches no other cloud; afterwards every
\* remaining point has a remaining neighbour, so a second call removes
\* nothing.
C20_IsolatedPointsRemoved ==
    /\ [][last'.op = "remove_isolated_points" =>
            LET s == last'.self
                old == clouds[s].coordinates.rows
                new == clouds'[s].coordinates.rows
            IN  /\ new = SelectRows(old,
                            [i \in 1..Len(old) |-> HasOtherPointNear(old, i)])
                /\ \A o \in DOMAIN clouds \ {s} : clouds'[o] = clouds[o]]_vars
    /\ [](last.op = "remove_isolated_points" =>
            LET rows == clouds[last.self].coordinates.rows
            IN  \A i \in 1..Len(rows) : HasOtherPointNear(rows, i))

C20_Witness ==
    /\ last.op = "remove_isolated_points"
    /\ last.err = "none"
    /\ Len(clouds[last.self].coordinates.rows) = 2
    /\ last.out = 1


(***************************************************************************)
(* The lead of model/scan.py, as the specification describes it: a grid    *)
(* of dimensions[1] x dimensions[2] slots scanned row by row, the k-th     *)
(* slot (k from 0) being named k + 1; `contacts` holds one record per      *)
(* contact name.  `base` is 0 when zero_index_lead is set and 1 otherwise. *)
(* What is suggested once every slot is taken is not specified; the scan   *)
(* then runs on to the slot after the last one.                            *)
(***************************************************************************)
Lead(dimensions, contacts) == [dimensions |-> dimensions, contacts |-> contacts]

Contact(label, loc, group, center) ==
    [label |-> label, loc |-> loc, group |-> group, center |-> center]

Base(zero_index) == IF zero_index THEN 0 ELSE 1

NumSlots(lead) == lead.dimensions[1] * lead.dimensions[2]

SlotLoc(lead, k, zero_index) ==
    << Base(zero_index) + (k % lead.dimensions[1]),
       Base(zero_index) + (k \div lead.dimensions[1]) >>

GridSlots(lead, zero_index) ==
    { SlotLoc(lead, k, zero_index) : k \in 0..(NumSlots(lead) - 1) }

OccupiedLocs(lead) == { c.loc : c \in lead.contacts }

NextSlot(lead, zero_index) ==
    LET free == { k \in 0..(NumSlots(lead) - 1) :
                     SlotLoc(lead, k, zero_index) \notin OccupiedLocs(lead) }
    IN  IF free = {} THEN NumSlots(lead)
        ELSE CHOOSE k \in free : \A j \in free : k <= j

next_contact_label(lead, zero_index) == NextSlot(lead, zero_index) + 1

next_contact_loc(lead, zero_index) ==
    SlotLoc(lead, NextSlot(lead, zero_index), zero_index)

contact_exists(lead, contact_label) ==
    \E c \in lead.contacts : c.label = contact_label

lead_location_exists(lead, lead_location, lead_group) ==
    \E c \in lead.contacts : c.loc = lead_location /\ c.group = lead_group

add_contact(lead, contact_label, lead_location, lead_group, center) ==
    [lead EXCEPT !.contacts =
        { c \in @ : c.label # contact_label }
            \cup { Contact(contact_label, lead_location, lead_group, center) }]

seed_next_contact(lead, coordinate, zero_index) ==
    add_contact(lead, next_contact_label(lead, zero_index),
                next_contact_loc(lead, zero_index), 0, coordinate)

remove_contact(lead, contact_label) ==
    [lead EXCEPT !.contacts = { c \in @ : c.label # contact_label }]

\* interpolate: with at least two contacts on the grid every free slot gets
\* an interpolated centre; with fewer it reports and changes nothing.
interpolate(lead, zero_index) ==
    LET grid == GridSlots(lead, zero_index)
        free == { k \in 0..(NumSlots(lead) - 1) :
                     SlotLoc(lead, k, zero_index) \notin OccupiedLocs(lead)
                     /\ ~contact_exists(lead, k + 1) }
    IN  IF Cardinality(OccupiedLocs(lead) \cap grid) < 2 THEN lead
        ELSE [lead EXCEPT !.contacts =
                 @ \cup { Contact(k + 1, SlotLoc(lead, k, zero_index), 0,
                                  "interpolated") : k \in free }]

\* add_selection_to_lead: raises ValueError on an empty selection; on a
\* location that is taken or off the grid it either raises (the engine
\* rejects it) or records the contact, and otherwise records the contact.
add_selection_to_lead(lead, selection, contact_label, lead_location, lead_group, zero_index) ==
    LET recorded == [err |-> "none",
                     lead |-> add_contact(lead, contact_label, lead_location,
                                          lead_group, selection)]
        rejected == [err |-> "ValueError", lead |-> lead]
    IN  IF selection = "empty" THEN { rejected }
        ELSE IF lead_location_exists(lead, lead_location, lead_group)
                  \/ lead_location \notin GridSlots(lead, zero_index)
        THEN { rejected, recorded }
        ELSE { recorded }


(***************************************************************************)
(* The interactive handlers of PylocControl (view/pyloc.py) on a loaded CT *)
(* with one selected lead.  ctl holds the controller's fields and the CT   *)
(* state they act on (the lead's contacts and the current selection);      *)
(* ctlPc holds the position inside the running handler ("idle" between     *)
(* handlers), add_selection's local variables and dialog replies, the CT   *)
(* state at the handler's entry, and the latest autosave snapshot.         *)
(* A picked coordinate is a token: "p" and "q" lie on bright voxels,       *)
(* "void" has no voxel within reach, so that its selection is empty and    *)
(* the centroid of the selection is NaN.                                   *)
(***************************************************************************)
Session(lead, zero_index) ==
    [lead |-> lead, selection |-> "empty", clicked_coordinate |-> "zeros",
     selected_coordinate |-> "zeros", contact_label |-> 0, lead_location |-> <<0, 0>>, lead_group |-> 0,
     seeding |-> FALSE, zero_index |-> zero_index]

CTState(self) == [contacts |-> self.lead.contacts, selection |-> self.selection]

NotSaved == [leads |-> {}, at |-> "never"]

Handler(pc, entry, label, loc, group, dup, oob, saved) ==
    [pc |-> pc, entry |-> entry, label |-> label, loc |-> loc,
     group |-> group, dup |-> dup, oob |-> oob, saved |-> saved]

Enter(pc) == [ctlPc EXCEPT !.pc = pc, !.entry = CTState(ctl)]

NoEntry == [contacts |-> {}, selection |-> "empty"]

Return ==
    [ctlPc EXCEPT !.pc = "idle", !.entry = NoEntry, !.label = 0,
                  !.loc = <<0, 0>>, !.group = 0, !.dup = "none", !.oob = "none"]

SessionInit(dims, zero_indexes) ==
    /\ \E d \in dims, z \in zero_indexes : ctl = Session(Lead(d, {}), z)
    /\ ctlPc = Handler("idle", NoEntry,
                       0, <<0, 0>>, 0, "none", "none", NotSaved)
    /\ clouds = <<>>
    /\ last = NoCall
    /\ CTIdle
    /\ GMIdle
    /\ ViewIdle

\* select_points_near followed by center_selection
Refined(coordinate) ==
    CASE coordinate = "p" -> [selection |-> "near_p", coordinate |-> "centre_p"]
      [] coordinate = "q" -> [selection |-> "near_q", coordinate |-> "centre_q"]
      [] OTHER -> [selection |-> "empty", coordinate |-> "nan"]

SetContactLabel(label) ==
    /\ ctlPc.pc = "idle"
    /\ ctl' = [ctl EXCEPT !.contact_label = label, !.lead_group = 0]
    /\ UNCHANGED ctlPc
    /\ CtlFrame

SetLeadLocation(lead_location, lead_group) ==
    /\ ctlPc.pc = "idle"
    /\ ctl' = [ctl EXCEPT !.lead_location = lead_location,
                          !.lead_group = lead_group]
    /\ UNCHANGED ctlPc
    /\ CtlFrame

ToggleSeeding ==
    /\ ctlPc.pc = "idle"
    /\ ctl' = [ctl EXCEPT !.seeding = ~@]
    /\ UNCHANGED ctlPc
    /\ CtlFrame

\* select_next_contact_label
NextLabelSelected(self) ==
    [self EXCEPT
       !.contact_label = next_contact_label(self.lead, self.zero_index),
       !.lead_location = next_contact_loc(self.lead, self.zero_index)]

\* select_coordinate, first part: the pick, the selection around it and
\* its centring
SelectCoordinate(coordinate) ==
    /\ ctlPc.pc = "idle"
    /\ ctl' = [ctl EXCEPT !.clicked_coordinate = coordinate,
                          !.selection = Refined(coordinate).selection,
                          !.selected_coordinate = Refined(coordinate).coordinate]
    /\ ctlPc' = Enter("picked")
    /\ CtlFrame

\* select_coordinate without seeding, or with no coordinate selected
SelectCoordinateShow ==
    /\ ctlPc.pc = "picked"
    /\ ctl.selected_coordinate = "nan" \/ ~ctl.seeding
    /\ ctlPc' = Return
    /\ UNCHANGED ctl
    /\ CtlFrame

SelectCoordinateSeed ==
    /\ ctlPc.pc = "picked"
    /\ ctl.selected_coordinate # "nan" /\ ctl.seeding
    /\ ctl' = [ctl EXCEPT !.lead = seed_next_contact(@, ctl.selected_coordinate,
                                                     ctl.zero_index)]
    /\ ctlPc' = [ctlPc EXCEPT !.pc = "seeded"]
    /\ CtlFrame

SelectCoordinateClear ==
    /\ ctlPc.pc = "seeded"
    /\ ctl' = [ctl EXCEPT !.selection = "empty", !.selected_coordinate = "zeros"]
    /\ ctlPc' = [ctlPc EXCEPT !.pc = "seed_next"]
    /\ CtlFrame

SelectCoordinateNext_stale ==
    /\ ctlPc.pc = "seed_next"
    /\ ctlPc' = Return
    /\ UNCHANGED ctl
    /\ CtlFrame

SelectCoordinateNext ==
    /\ ctlPc.pc = "seed_next"
    /\ ctl' = NextLabelSelected(ctl)
    /\ ctlPc' = Return
    /\ CtlFrame


\* add_selection: the bounds test that decides on the second confirmation
OutsideDimensions(lead, lead_location, zero_index) ==
    LET offset == IF zero_index THEN 1 ELSE 0
    IN  \/ lead_location[1] + offset > lead.dimensions[1]
        \/ lead_location[2] + offset > lead.dimensions[2]

AfterDuplicateTest(lead_location) ==
    IF OutsideDimensions(ctl.lead, lead_location, ctl.zero_index)
    THEN "confirm_dims" ELSE "commit"

AddSelectionBegin ==
    /\ ctlPc.pc = "idle"
    /\ ctlPc' = [Enter(IF ~contact_exists(ctl.lead, ctl.contact_label)
                          /\ lead_location_exists(ctl.lead, ctl.lead_location,
                                                  ctl.lead_group)
                       THEN "confirm_duplicate"
                       ELSE AfterDuplicateTest(ctl.lead_location))
                 EXCEPT !.label = ctl.contact_label,
                        !.loc = ctl.lead_location,
                        !.group = ctl.lead_group]
    /\ UNCHANGED ctl
    /\ CtlFrame

ConfirmDuplicate(reply) ==
    /\ ctlPc.pc = "confirm_duplicate"
    /\ ctlPc' = IF reply
                THEN [ctlPc EXCEPT !.pc = AfterDuplicateTest(ctlPc.loc),
                                   !.dup = "yes"]
                ELSE Return
    /\ UNCHANGED ctl
    /\ CtlFrame

ConfirmDimensions(reply) ==
    /\ ctlPc.pc = "confirm_dims"
    /\ ctlPc' = IF reply THEN [ctlPc EXCEPT !.pc = "commit", !.oob = "yes"]
                ELSE Return
    /\ UNCHANGED ctl
    /\ CtlFrame

AddSelectionCommit ==
    /\ ctlPc.pc = "commit"
    /\ \E res \in add_selection_to_lead(ctl.lead, ctl.selection, ctlPc.label,
                                        ctlPc.loc, ctl.lead_group,
                                        ctl.zero_index) :
          /\ ctl' = [ctl EXCEPT !.lead = res.lead]
          /\ ctlPc' = [ctlPc EXCEPT
                         !.pc = IF res.err = "none" THEN "committed" ELSE "warning"]
    /\ CtlFrame

AddSelectionClear ==
    /\ ctlPc.pc = "committed"
    /\ ctl' = [ctl EXCEPT !.selection = "empty"]
    /\ ctlPc' = [ctlPc EXCEPT !.pc = "add_next"]
    /\ CtlFrame

AddSelectionNext ==
    /\ ctlPc.pc = "add_next"
    /\ ctl' = NextLabelSelected(ctl)
    /\ ctlPc' = Return
    /\ CtlFrame

AddSelectionWarning_clearing ==
    /\ ctlPc.pc = "warning"
    /\ ctl' = NextLabelSelected([ctl EXCEPT !.selection = "empty"])
    /\ ctlPc' = Return
    /\ CtlFrame

AddSelectionWarning ==
    /\ ctlPc.pc = "warning"
    /\ ctlPc' = Return
    /\ UNCHANGED ctl
    /\ CtlFrame

DeleteContact(contact_label) ==
    /\ ctlPc.pc = "idle"
    /\ ctl' = [ctl EXCEPT !.lead = remove_contact(@, contact_label)]
    /\ UNCHANGED ctlPc
    /\ CtlFrame

InterpolateSelectedLead ==
    /\ ctlPc.pc = "idle"
    /\ ctl' = [ctl EXCEPT !.lead = interpolate(@, ctl.zero_index)]
    /\ UNCHANGED ctlPc
    /\ CtlFrame

\* The autosave timer's timeout and closeEvent are delivered by the Qt
\* event loop, which runs between handlers and inside a modal dialog.
EventLoopRunning_always == TRUE

EventLoopRunning ==
    ctlPc.pc \in {"idle", "confirm_duplicate", "confirm_dims", "warning"}

to_dict(self) == self.lead.contacts

AutoSaveState ==
    /\ EventLoopRunning
    /\ ctlPc' = [ctlPc EXCEPT !.saved = [leads |-> to_dict(ctl), at |-> ctlPc.pc]]
    /\ UNCHANGED ctl
    /\ CtlFrame


(***************************************************************************)
(* add_selection on a 2 x 1 lead                                           *)
(***************************************************************************)
AddDimensions == { <<2, 1>> }

AddLabels == {1, 2}

\* (location, group) pairs the user can enter in the contact panel
AddSlots ==
    { << <<x, 1>>, 0 >> : x \in 0..3 } \cup { << <<1, 0>>, 0 >>, << <<1, 1>>, 1 >> }

AddInit == SessionInit(AddDimensions, BOOLEAN)

AddNext ==
    \/ \E label \in AddLabels : SetContactLabel(label)
    \/ \E slot \in AddSlots : SetLeadLocation(slot[1], slot[2])
    \/ SelectCoordinate("p")
    \/ SelectCoordinateShow
    \/ AddSelectionBegin
    \/ \E reply \in BOOLEAN : ConfirmDuplicate(reply)
    \/ \E reply \in BOOLEAN : ConfirmDimensions(reply)
    \/ AddSelectionCommit
    \/ AddSelectionClear
    \/ AddSelectionNext
    \/ AddSelectionWarning
    \/ \E label \in AddLabels : DeleteContact(label)

SpecAdd == AddInit /\ [][AddNext]_vars

CommitCall == ctlPc.pc = "commit" /\ ctlPc'.pc # "commit"

\* C15: add_selection calls the commit on a (location, group) slot that is
\* already taken only after the user confirmed the duplicate, whether or
\* not the submitted contact label exists on the lead; when the user
\* declines, nothing is committed.
C15_DuplicateNeedsConfirmation ==
    /\ [][(CommitCall /\ lead_location_exists(ctl.lead, ctlPc.loc, ctl.lead_group))
            => ctlPc.dup = "yes"]_vars
    /\ [][ctlPc.pc = "confirm_duplicate" /\ ctlPc'.pc = "idle"
            => ctl' = ctl]_vars

ValidSlot(lead, lead_location, zero_index) ==
    /\ lead_location[1] \in Base(zero_index)..(Base(zero_index) + lead.dimensions[1] - 1)
    /\ lead_location[2] \in Base(zero_index)..(Base(zero_index) + lead.dimensions[2] - 1)

\* C16: add_selection reaches the commit without the out-of-bounds
\* confirmation exactly when the location is a valid slot of the lead
\* ([0,width) x [0,height) with zero_index_lead, [1,width] x [1,height]
\* without); any other location is committed only after the user accepted.
C16_OutOfBoundsNeedsConfirmation ==
    /\ [][CommitCall =>
            (ctlPc.oob = "none" <=> ValidSlot(ctl.lead, ctlPc.loc, ctl.zero_index))]_vars
    /\ [][ctlPc.pc = "confirm_dims" /\ ctlPc'.pc = "idle" => ctl' = ctl]_vars


(***************************************************************************)
(* Seeding picks                                                           *)
(***************************************************************************)
SeedDimensions == { <<2, 1>>, <<2, 2>> }

SeedPicks == {"p", "q", "void"}

SeedInit == SessionInit(SeedDimensions, BOOLEAN)

SeedNext ==
    \/ ToggleSeeding
    \/ \E label \in {1, 2} : SetContactLabel(label)
    \/ \E coordinate \in SeedPicks : SelectCoordinate(coordinate)
    \/ SelectCoordinateShow
    \/ SelectCoordinateSeed
    \/ SelectCoordinateClear
    \/ SelectCoordinateNext
    \/ \E label \in {1, 2} : DeleteContact(label)

SpecSeed == SeedInit /\ [][SeedNext]_vars

HasFreeSlot(self) == NextSlot(self.lead, self.zero_index) < NumSlots(self.lead)

SaveDimensions == { <<3, 1>> }

SaveSlots == { << <<1, 1>>, 0 >> }

\* The session once contact 1 and location (1, 1) have been typed in.
SaveInit ==
    /\ \E d \in SaveDimensions :
          ctl = [Session(Lead(d, {}), FALSE) EXCEPT !.contact_label = 1,
                                                   !.lead_location = <<1, 1>>]
    /\ ctlPc = Handler("idle", NoEntry, 0, <<0, 0>>, 0, "none", "none", NotSaved)
    /\ clouds = <<>>
    /\ last = NoCall
    /\ CTIdle
    /\ GMIdle
    /\ ViewIdle

\* The user declines a contact outside the lead's dimensions.
SaveNext ==
    \/ ToggleSeeding
    \/ \E slot \in SaveSlots : SetLeadLocation(slot[1], slot[2])
    \/ SelectCoordinate("p")
    \/ SelectCoordinateShow
    \/ SelectCoordinateSeed
    \/ SelectCoordinateClear
    \/ SelectCoordinateNext
    \/ AddSelectionBegin
    \/ \E reply \in BOOLEAN : ConfirmDuplicate(reply)
    \/ ConfirmDimensions(FALSE)
    \/ AddSelectionCommit
    \/ AddSelectionClear
    \/ AddSelectionNext
    \/ AddSelectionWarning
    \/ DeleteContact(1)
    \/ InterpolateSelectedLead
    \/ AutoSaveState

SpecSave == SaveInit /\ [][SaveNext]_vars

C18_WitnessInterpolated ==
    /\ ctlPc.saved.at = "idle"
    /\ \E c \in ctlPc.saved.leads : c.center = "interpolated"
    /\ \E c \in ctlPc.saved.leads : c.center # "interpolated"

C18_WitnessDeclined ==
    /\ ctlPc.saved.at = "confirm_dims"
    /\ ctlPc.pc = "idle"
    /\ ctlPc.saved.leads = ctl.lead.contacts
    /\ ctlPc.saved.leads # {}

(***************************************************************************)
(* CT.confirm_selected_electrode (model/pointcloud.py)                     *)
(***************************************************************************)
MaxConfirmed == 2

ElectrodeNames == { "E1", "E2" }

\* new_cloud.union(self.selected_points) returns a new cloud that the code
\* drops; new_cloud itself is appended as empty_cloud(name) made it.
confirm_selected_electrode(self, name) ==
    LET new_cloud == empty_cloud(name)
        dropped == union(new_cloud, self.selected_points)
    IN  [self EXCEPT !.confirmed_electrodes = Append(@, new_cloud),
                     !.selected_points = clear(@)]

ConfirmSelectedElectrode(name) ==
    /\ Len(ct.confirmed_electrodes) < MaxConfirmed
    /\ ct' = confirm_selected_electrode(ct, name)
    /\ ctLast' = CTCall("confirm_selected_electrode", name, "none",
                        setify(ct.selected_points))
    /\ CTFrame

ConfirmNext ==
    \/ \E point \in CTPicks : SelectPointsNear(point)
    \/ \E name \in ElectrodeNames : ConfirmSelectedElectrode(name)

SpecConfirm == CTInit /\ [][ConfirmNext]_vars

\* C26: confirm_selected_electrode(name) appends exactly one cloud labelled
\* `name` holding exactly the coordinates of the selection at the call,
\* leaves the earlier confirmed clouds and the master cloud unchanged, and
\* leaves the selection empty.
C26_ConfirmKeepsSelection ==
    [][ctLast'.op = "confirm_selected_electrode" =>
          LET n == Len(ct.confirmed_electrodes)
          IN  /\ Len(ct'.confirmed_electrodes) = n + 1
              /\ ct'.confirmed_electrodes[n + 1].label = ctLast'.arg
              /\ setify(ct'.confirmed_electrodes[n + 1])
                    = setify(ct.selected_points)
              /\ SubSeq(ct'.confirmed_electrodes, 1, n) = ct.confirmed_electrodes
              /\ ct'.all_points = ct.all_points
              /\ IsEmpty(ct'.selected_points)]_vars

(***************************************************************************)
(* CloudViewer colour registry (view/pyloc.py).  An RGB colour is the      *)
(* triple of its components times ten.                                     *)
(***************************************************************************)
MaxAssigned == 12

_lead_rgb_colors ==
    << <<10, 0, 0>>, <<0, 8, 0>>, <<0, 0, 10>>, <<10, 8, 0>>,
       <<10, 0, 10>>, <<0, 8, 10>>, <<10, 5, 0>>, <<6, 0, 10>>,
       <<0, 6, 0>>, <<8, 8, 0>>, <<8, 4, 2>>, <<10, 6, 8>> >>

LeadNames ==
    << "LA", "LB", "LC", "LD", "LE", "LF", "LG", "LH", "LI", "LJ", "LK",
       "LL", "LM", "LN", "LO", "LP" >>

RequestedNames == { "LA", "LN", "LO", "LP" }

ColorRegistry(assignments, next) ==
    [_lead_color_assignments |-> assignments, _next_color_index |-> next]

ViewCall(op, arg, out) == [op |-> op, arg |-> arg, out |-> out]

get_lead_color_reassign(cls, lead_name) ==
    LET color_index == cls._next_color_index % Len(_lead_rgb_colors)
        color == _lead_rgb_colors[color_index + 1]
    IN  [cls |-> ColorRegistry(
                   [n \in DOMAIN cls._lead_color_assignments \cup {lead_name} |->
                       IF n = lead_name THEN color
                       ELSE cls._lead_color_assignments[n]],
                   cls._next_color_index + 1),
         out |-> color]

get_lead_color(cls, lead_name) ==
    IF lead_name \notin DOMAIN cls._lead_color_assignments
    THEN get_lead_color_reassign(cls, lead_name)
    ELSE [cls |-> cls, out |-> cls._lead_color_assignments[lead_name]]

reset_color_assignments(cls) == ColorRegistry(<<>>, 0)

\* The registry after the first k leads of a session were coloured in order.
ColorInit ==
    /\ \E k \in 0..MaxAssigned :
          view = ColorRegistry(
                    [n \in { LeadNames[i] : i \in 1..k } |->
                        LET i == CHOOSE j \in 1..k : LeadNames[j] = n
                        IN  _lead_rgb_colors[((i - 1) % Len(_lead_rgb_colors)) + 1]],
                    k)
    /\ viewPc = ViewCall("__init__", "", <<>>)
    /\ clouds = <<>>
    /\ last = NoCall
    /\ CTIdle
    /\ GMIdle
    /\ CtlIdle

GetLeadColor(lead_name) ==
    /\ LET res == get_lead_color(view, lead_name)
       IN  /\ view' = res.cls
           /\ viewPc' = ViewCall("get_lead_color", lead_name, res.out)
    /\ ViewFrame

ResetColorAssignments ==
    /\ view' = reset_color_assignments(view)
    /\ viewPc' = ViewCall("reset_color_assignments", "", <<>>)
    /\ ViewFrame

ColorNext ==
    \/ \E lead_name \in RequestedNames : GetLeadColor(lead_name)
    \/ ResetColorAssignments

SpecColor == ColorInit /\ [][ColorNext]_vars

\* C24: a lead name keeps the colour of its first request as long as there
\* is no reset, the i-th distinct name (from 0) gets palette entry i mod 12,
\* and reset_color_assignments empties the registry and sets the next index
\* to 0.
C24_LeadColorPersistent ==
    /\ [](view._next_color_index = Cardinality(DOMAIN view._lead_color_assignments))
    /\ [][viewPc'.op = "get_lead_color" =>
            LET known == DOMAIN view._lead_color_assignments
                name == viewPc'.arg
            IN  /\ \A n \in known :
                      /\ n \in DOMAIN view'._lead_color_assignments
                      /\ view'._lead_color_assignments[n]
                            = view._lead_color_assignments[n]
                /\ viewPc'.out = view'._lead_color_assignments[name]
                /\ name \notin known =>
                      viewPc'.out = _lead_rgb_colors[(Cardinality(known) % 12) + 1]
                /\ DOMAIN view'._lead_color_assignments = known \cup {name}]_vars
    /\ [][viewPc'.op = "reset_color_assignments" =>
            /\ DOMAIN view'._lead_color_assignments = {}
            /\ view'._next_color_index = 0]_vars

C24_Witness ==
    /\ viewPc.op = "get_lead_color"
    /\ viewPc.arg = "LN"
    /\ view._next_color_index = 14
    /\ {"LA", "LN", "LO"} \subseteq DOMAIN view._lead_color_assignments
    /\ view._lead_color_assignments["LN"] = _lead_rgb_colors[1]
    /\ view._lead_color_assignments["LA"] = _lead_rgb_colors[1]
    /\ view._lead_color_assignments["LO"] = _lead_rgb_colors[2]

(***************************************************************************)
(* SimplePyVistaScene picking (view/pyvista_viewer_simple.py) and the      *)
(* CloudViewer / CloudView wiring on top of it (view/pyloc.py).            *)
(*                                                                         *)
(* A dict is the sequence of its [name, fn] items in insertion order.  A   *)
(* callback is [kind, label, target]: kind "returns", "raises" or "None"   *)
(* for a plain function, and "CloudView.callback" for the bound method of  *)
(* the CloudView of `label` whose _callback is `target`.  One pick is one  *)
(* step; viewPc.events lists, in order, what the pick ran.                 *)
(***************************************************************************)
Fn(kind, label, target) == [kind |-> kind, label |-> label, target |-> target]

PlainCallbacks == { Fn(k, "", "") : k \in {"returns", "raises", "None"} }

ActorNames == { "ct_scan", "leads", "selected" }

CloudLabels == { "_ct", "_leads", "_selected" }

CloudTargets == { "select_coordinate", "lambda" }

Event(ev, by) == [ev |-> ev, by |-> by]

DictIndex(d, name) == CHOOSE i \in 1..Len(d) : d[i].name = name

HasKey(d, name) == \E i \in 1..Len(d) : d[i].name = name

DictSet(d, name, fn) ==
    IF HasKey(d, name) THEN [d EXCEPT ![DictIndex(d, name)].fn = fn]
    ELSE Append(d, [name |-> name, fn |-> fn])

DictDel(d, name) == SelectSeq(d, LAMBDA item : item.name # name)

SimplePyVistaScene(connected) ==
    [callbacks |-> <<>>, actors |-> {}, clouds |-> <<>>, connected |-> connected]

set_callback(self, actor_name, callback) ==
    [self EXCEPT !.callbacks = DictSet(@, actor_name, callback)]

add_point_cloud(self, name, callback) ==
    LET registered == IF callback.kind # "None"
                      THEN set_callback(self, name, callback) ELSE self
    IN  [registered EXCEPT !.actors = @ \cup {name}]

remove_point_cloud(self, name) == [self EXCEPT !.actors = @ \ {name}]

\* CloudView.callback: self._callback(np.array(picker.pick_position))
CloudView_callback(fn) == << Event(fn.target, fn.label) >>

Invoke(fn) ==
    IF fn.kind = "raises" THEN [raised |-> TRUE, events |-> <<>>]
    ELSE IF fn.kind = "CloudView.callback"
    THEN [raised |-> FALSE, events |-> CloudView_callback(fn)]
    ELSE [raised |-> FALSE, events |-> <<>>]

\* CloudViewer.on_point_picked, the slot connected to point_picked
on_point_picked(self) ==
    LET contains(i) == self.clouds[i]._plot
        holders == { i \in 1..Len(self.clouds) : contains(i) }
        cts == { i \in holders : self.clouds[i].label = "_ct" }
        chosen == IF cts # {} THEN cts
                  ELSE IF holders = {} THEN {}
                  ELSE { CHOOSE i \in holders : \A j \in holders : i <= j }
    IN  IF chosen = {} THEN <<>>
        ELSE LET cloud == self.clouds[CHOOSE i \in chosen : TRUE]
             IN  CloudView_callback(Fn("CloudView.callback", cloud.label,
                                       cloud._callback))

Eligible(self, i) ==
    self.callbacks[i].name \in self.actors /\ self.callbacks[i].fn.kind # "None"

\* The loop of _on_point_picked: the callbacks tried from index i on.
RECURSIVE RouteRetrying(_, _)
RouteRetrying(self, i) ==
    IF i > Len(self.callbacks) THEN <<>>
    ELSE IF ~Eligible(self, i) THEN RouteRetrying(self, i + 1)
    ELSE LET res == Invoke(self.callbacks[i].fn)
             tried == << Event("callback", self.callbacks[i].name) >> \o res.events
         IN  IF res.raised THEN tried \o RouteRetrying(self, i + 1) ELSE tried

RECURSIVE Route(_, _)
Route(self, i) ==
    IF i > Len(self.callbacks) THEN <<>>
    ELSE IF ~Eligible(self, i) THEN Route(self, i + 1)
    ELSE << Event("callback", self.callbacks[i].name) >>
             \o Invoke(self.callbacks[i].fn).events

_on_point_picked(self) ==
    Route(self, 1)
      \o << Event("emit", "point_picked") >>
      \o (IF self.connected THEN on_point_picked(self) ELSE <<>>)

ViewControl(op, events) == [op |-> op, events |-> events]

SceneInit ==
    /\ view = SimplePyVistaScene(FALSE)
    /\ viewPc = ViewControl("__init__", <<>>)
    /\ clouds = <<>>
    /\ last = NoCall
    /\ CTIdle
    /\ GMIdle
    /\ CtlIdle

SetCallback(actor_name, callback) ==
    /\ view' = set_callback(view, actor_name, callback)
    /\ viewPc' = ViewControl("set_callback", <<>>)
    /\ ViewFrame

AddPointCloud(name, callback) ==
    /\ view' = add_point_cloud(view, name, callback)
    /\ viewPc' = ViewControl("add_point_cloud", <<>>)
    /\ ViewFrame

RemovePointCloud(name) ==
    /\ view' = remove_point_cloud(view, name)
    /\ viewPc' = ViewControl("remove_point_cloud", <<>>)
    /\ ViewFrame

OnPointPicked ==
    /\ viewPc' = ViewControl("_on_point_picked", _on_point_picked(view))
    /\ UNCHANGED view
    /\ ViewFrame

SceneNext ==
    \/ \E name \in ActorNames, fn \in PlainCallbacks : SetCallback(name, fn)
    \/ \E name \in ActorNames : AddPointCloud(name, Fn("None", "", ""))
    \/ \E name \in ActorNames : RemovePointCloud(name)
    \/ OnPointPicked

SpecScene == SceneInit /\ [][SceneNext]_vars

Count(events, ev) ==
    Cardinality({ i \in 1..Len(events) : events[i].ev = ev })

EligibleIndexes(self) == { i \in 1..Len(self.callbacks) : Eligible(self, i) }

\* C23: one pick tries the registered callbacks in registration order until
\* one succeeds: a callback whose name has no actor is passed over, after an
\* eligible callback that raises the next eligible one is tried, and the
\* point_picked signal is emitted exactly once.
C23_TriesUntilOneSucceeds ==
    [](viewPc.op = "_on_point_picked" =>
          /\ Count(viewPc.events, "emit") = 1
          /\ SelectSeq(viewPc.events, LAMBDA e : e.ev # "emit")
                = RouteRetrying(view, 1))

(***************************************************************************)
(* CloudViewer on top of the scene: clouds is the dict of CloudView        *)
(* objects, [label, _plot, _callback] each, _plot being "is plotted".      *)
(***************************************************************************)
ActorName(label) ==
    CASE label = "_ct" -> "cloud__ct"
      [] label = "_leads" -> "cloud__leads"
      [] OTHER -> "cloud__selected"

CloudView(label, callback) == [label |-> label, _plot |-> FALSE, _callback |-> callback]

HasCloud(self, label) == \E i \in 1..Len(self.clouds) : self.clouds[i].label = label

CloudOf(self, label) ==
    self.clouds[CHOOSE i \in 1..Len(self.clouds) : self.clouds[i].label = label]

unplot(self, label) ==
    IF CloudOf(self, label)._plot
    THEN [remove_point_cloud(self, ActorName(label)) EXCEPT
            !.clouds = [i \in 1..Len(@) |->
                          IF @[i].label = label THEN [@[i] EXCEPT !._plot = FALSE]
                          ELSE @[i]]]
    ELSE self

remove_cloud(self, label) ==
    [unplot(self, label) EXCEPT
        !.clouds = SelectSeq(@, LAMBDA cloud : cloud.label # label)]

\* CloudView.plot: nothing is drawn or registered for a cloud with no points.
plot(self, label, has_points) ==
    IF ~has_points THEN self
    ELSE LET cloud == CloudOf(self, label)
             drawn == add_point_cloud(self, ActorName(label),
                         Fn("CloudView.callback", label, cloud._callback))
         IN  [drawn EXCEPT
                !.clouds = [i \in 1..Len(@) |->
                              IF @[i].label = label THEN [@[i] EXCEPT !._plot = TRUE]
                              ELSE @[i]]]

add_cloud(self, label, callback, has_points) ==
    LET removed == IF HasCloud(self, label) THEN remove_cloud(self, label) ELSE self
        added == [removed EXCEPT !.clouds = Append(@, CloudView(label, callback))]
    IN  plot(added, label, has_points)

PickInit ==
    /\ view = SimplePyVistaScene(TRUE)
    /\ viewPc = ViewControl("__init__", <<>>)
    /\ clouds = <<>>
    /\ last = NoCall
    /\ CTIdle
    /\ GMIdle
    /\ CtlIdle

\* load_ct passes select_coordinate for '_ct' and no callback for the others.
AddCloud(label, has_points) ==
    /\ view' = add_cloud(view, label,
                         IF label = "_ct" THEN "select_coordinate" ELSE "lambda",
                         has_points)
    /\ viewPc' = ViewControl("add_cloud", <<>>)
    /\ ViewFrame

UnplotCloud(label) ==
    /\ HasCloud(view, label)
    /\ view' = unplot(view, label)
    /\ viewPc' = ViewControl("unplot_cloud", <<>>)
    /\ ViewFrame

PickNext ==
    \/ \E label \in CloudLabels, has_points \in BOOLEAN : AddCloud(label, has_points)
    \/ \E label \in CloudLabels : UnplotCloud(label)
    \/ OnPointPicked

SpecPick == PickInit /\ [][PickNext]_vars

\* C25: one pick runs select_coordinate at most once: the callback that
\* CloudView.plot registered with the scene and the point_picked handler
\* CloudViewer.on_point_picked never both run it for the same pick.
C25_OnePickOneSelection ==
    [](viewPc.op = "_on_point_picked" =>
          Count(viewPc.events, "select_coordinate") <= 1)

(***************************************************************************)
(* TranslateCoordinatesWidget (view/pyloc.py).                             *)
(*                                                                         *)
(* coordinates_data is a dict of dicts: `items` maps a contact name to the *)
(* identity of its inner dict and `heap` holds the x, y, z of each inner   *)
(* dict, so that two dicts sharing an inner dict see each other's writes.  *)
(* A transform is the upper 3 x 4 part of an affine matrix; no transform   *)
(* (None) is the empty tuple.                                              *)
(***************************************************************************)
MaxCoordinate == 3

ContactNames == << "A1", "A2" >>

LoadedPoints == { <<0, 0, 0>>, <<1, 2, 0>> }

Transforms ==
    { << <<1, 0, 0, 0>>, <<0, 1, 0, 0>>, <<0, 0, 1, 0>> >>,
      << <<1, 0, 0, 1>>, <<0, 1, 0, 0>>, <<0, 0, 1, 0>> >>,
      << <<0, 1, 0, 0>>, <<1, 0, 0, 0>>, <<0, 0, 1, 0>> >> }

MatVec(m, p) ==
    [r \in 1..3 |-> m[r][1] * p[1] + m[r][2] * p[2] + m[r][3] * p[3] + m[r][4]]

TranslateCoordinatesWidget ==
    [items |-> <<>>, heap |-> <<>>, registration_transform |-> <<>>]

\* json.load builds one fresh inner dict per contact
load_coordinates(self, points) ==
    [self EXCEPT !.items = [i \in 1..Len(points) |-> i], !.heap = points]

Resolve(items, heap) == [i \in 1..Len(items) |-> heap[items[i]]]

dict_copy(items) == items

apply_transform_to_coordinates(self, coordinates_data) ==
    LET transformed_data == dict_copy(coordinates_data)
        written == { transformed_data[i] : i \in 1..Len(coordinates_data) }
        heap == [id \in 1..Len(self.heap) |->
                    IF id \in written
                    THEN MatVec(self.registration_transform, self.heap[id])
                    ELSE self.heap[id]]
    IN  [self |-> [self EXCEPT !.heap = heap],
         out |-> Resolve(transformed_data, heap)]

transform_coordinates(self) ==
    IF self.registration_transform = <<>> THEN [self |-> self, out |-> <<>>]
    ELSE apply_transform_to_coordinates(self, self.items)

TranslateCall(op, out) == [op |-> op, out |-> out]

TranslateInit ==
    /\ view = TranslateCoordinatesWidget
    /\ viewPc = TranslateCall("__init__", <<>>)
    /\ clouds = <<>>
    /\ last = NoCall
    /\ CTIdle
    /\ GMIdle
    /\ CtlIdle

LoadCoordinates(points) ==
    /\ view' = load_coordinates(view, points)
    /\ viewPc' = TranslateCall("load_coordinates", <<>>)
    /\ ViewFrame

RegisterCtScans(transform) ==
    /\ view' = [view EXCEPT !.registration_transform = transform]
    /\ viewPc' = TranslateCall("register_ct_scans", <<>>)
    /\ ViewFrame

TransformCoordinates ==
    /\ \A id \in 1..Len(view.heap), r \in 1..3 : view.heap[id][r] < MaxCoordinate
    /\ LET res == transform_coordinates(view)
       IN  /\ view' = res.self
           /\ viewPc' = TranslateCall("transform_coordinates", res.out)
    /\ ViewFrame

TranslateNext ==
    \/ \E points \in SeqsUpTo(LoadedPoints, Len(ContactNames)) : LoadCoordinates(points)
    \/ \E transform \in Transforms : RegisterCtScans(transform)
    \/ TransformCoordinates

SpecTranslate == TranslateInit /\ [][TranslateNext]_vars

\* C29: transform_coordinates leaves the loaded coordinates_data as it was,
\* so two runs in a row (one registration, one load) give the same output.
C29_TransformLeavesLoadedData ==
    [][viewPc'.op = "transform_coordinates" =>
          /\ Resolve(view'.items, view'.heap) = Resolve(view.items, view.heap)
          /\ viewPc.op = "transform_coordinates" => viewPc'.out = viewPc.out]_vars

(***************************************************************************)
(* add_selection as a whole                                                *)
(***************************************************************************)
AddSelectionRunning ==
    ctlPc.pc \in {"confirm_duplicate", "confirm_dims", "commit", "committed",
                  "add_next", "warning"}

C30_WitnessDeclined ==
    /\ ctlPc.pc = "confirm_dims"
    /\ ctlPc.dup = "yes"
    /\ ctl.selection # "empty"

C30_WitnessCommitted ==
    /\ ctlPc.pc = "add_next"
    /\ ctl.selection = "empty"
    /\ ctlPc.entry.selection # "empty"
    /\ ctl.lead.contacts # ctlPc.entry.contacts

(***************************************************************************)
(* Seeding picks under a configured selection_iterations                   *)
(***************************************************************************)
\* select_coordinate(coordinate) as the CT cloud's callback calls it:
\* do_center and allow_seed are True, center_selection runs
\* config['selection_iterations'] rounds, none of them when that is 0.
SelectCoordinateConfigured(coordinate) ==
    /\ ctlPc.pc = "idle"
    /\ ctl' = [ctl EXCEPT
                 !.clicked_coordinate = coordinate,
                 !.selection = Refined(coordinate).selection,
                 !.selected_coordinate =
                     IF ctl.selection_iterations > 0
                     THEN Refined(coordinate).coordinate ELSE coordinate]
    /\ ctlPc' = Enter("picked")
    /\ CtlFrame

\* select_coordinate(current_contact.center, False, False) from the contact
\* list: no centring and no seeding
SelectCoordinateFromList(coordinate) ==
    /\ ctlPc.pc = "idle"
    /\ ctl' = [ctl EXCEPT !.clicked_coordinate = coordinate,
                          !.selection = Refined(coordinate).selection,
                          !.selected_coordinate = coordinate]
    /\ UNCHANGED ctlPc
    /\ CtlFrame

ConfiguredInit ==
    /\ \E d \in SeedDimensions, n \in 0..MaxIterations :
          ctl = Session(Lead(d, {}), FALSE) @@ [selection_iterations |-> n]
    /\ ctlPc = Handler("idle", NoEntry, 0, <<0, 0>>, 0, "none", "none", NotSaved)
    /\ clouds = <<>>
    /\ last = NoCall
    /\ CTIdle
    /\ GMIdle
    /\ ViewIdle

ConfiguredNext ==
    \/ ToggleSeeding
    \/ \E coordinate \in SeedPicks : SelectCoordinateConfigured(coordinate)
    \/ \E coordinate \in SeedPicks : SelectCoordinateFromList(coordinate)
    \/ SelectCoordinateShow
    \/ SelectCoordinateSeed
    \/ SelectCoordinateClear
    \/ SelectCoordinateNext
    \/ DeleteContact(1)

SpecConfigured == ConfiguredInit /\ [][ConfiguredNext]_vars

\* C28: with seeding on, seed_next_contact is called only when the current
\* selection is non-empty, and the coordinate passed is the selection's
\* centroid, never NaN and never the raw clicked coordinate of an empty
\* selection, whatever selection_iterations is.
C28_EmptySelectionNeverSeeds ==
    [][ctlPc.pc = "picked" /\ ctlPc'.pc = "seeded" =>
          /\ ctl.selection # "empty"
          /\ ctl.selected_coordinate # "nan"
          /\ ctl.selected_coordinate # ctl.clicked_coordinate]_vars

(***************************************************************************)
(* Seeding and the selected lead (view/pyloc.py).  selected_lead is the    *)
(* label of the lead being localized, or None before one is chosen.        *)
(***************************************************************************)
LeadLabels == { "A", "B", "C" }

LeadSession(leads, selected_lead, seeding) ==
    [leads |-> leads, selected_lead |-> selected_lead, seeding |-> seeding]

Outcome(self, err) == [self |-> self, err |-> err]

\* self.selected_lead.<method>(...) on the current value of selected_lead
Dereference(self) ==
    IF self.selected_lead = None THEN "AttributeError" ELSE "none"

display_seed_contact(self) == Outcome(self, Dereference(self))

toggle_seeding(self) ==
    LET toggled == [self EXCEPT !.seeding = ~@]
    IN  IF toggled.seeding THEN display_seed_contact(toggled)
        ELSE Outcome(toggled, "none")

select_next_contact_label(self) == Outcome(self, Dereference(self))

set_selected_lead(self, lead_name) ==
    select_next_contact_label(
        IF lead_name \in self.leads THEN [self EXCEPT !.selected_lead = lead_name]
        ELSE self)

\* select_coordinate on a pick with voxels in reach: the radius falls back
\* to 5 without a lead, the seeding branch calls seed_next_contact on it.
select_coordinate(self) ==
    IF self.seeding THEN Outcome(self, Dereference(self))
    ELSE Outcome(self, "none")

LeadCall(op, err) == [op |-> op, err |-> err]

LeadInit ==
    /\ ctl = LeadSession({}, None, FALSE)
    /\ ctlPc = LeadCall("__init__", "none")
    /\ clouds = <<>>
    /\ last = NoCall
    /\ CTIdle
    /\ GMIdle
    /\ ViewIdle

SetLeads(labels) ==
    /\ ctl' = [ctl EXCEPT !.leads = labels]
    /\ ctlPc' = LeadCall("set_leads", "none")
    /\ CtlFrame

SetSelectedLead(lead_name) ==
    /\ LET res == set_selected_lead(ctl, lead_name)
       IN  ctl' = res.self /\ ctlPc' = LeadCall("set_selected_lead", res.err)
    /\ CtlFrame

ToggleSeedingCall ==
    /\ LET res == toggle_seeding(ctl)
       IN  ctl' = res.self /\ ctlPc' = LeadCall("toggle_seeding", res.err)
    /\ CtlFrame

SelectCoordinateCall ==
    /\ LET res == select_coordinate(ctl)
       IN  ctl' = res.self /\ ctlPc' = LeadCall("select_coordinate", res.err)
    /\ CtlFrame

LeadNext ==
    \/ \E labels \in SUBSET LeadLabels : SetLeads(labels)
    \/ \E lead_name \in LeadLabels : SetSelectedLead(lead_name)
    \/ ToggleSeedingCall
    \/ SelectCoordinateCall

SpecLead == LeadInit /\ [][LeadNext]_vars

\* C27: seeding == True implies a lead is selected: toggle_seeding with no
\* selected lead does not leave seeding enabled, and no pick handled while
\* seeding is on dereferences a missing lead.
C27_SeedingImpliesLead ==
    /\ [](ctl.seeding => ctl.selected_lead # None)
    /\ [](ctlPc.op \in {"toggle_seeding", "select_coordinate"}
             => ctlPc.err = "none")

(***************************************************************************)
(* Centering on a synthetic cluster                                        *)
(***************************************************************************)
ClusterCentre == <<50, 50, 50>>

Click == <<48, 48, 48>>

ClusterNeighbours ==
    { <<49, 50, 50>>, <<51, 50, 50>>, <<50, 49, 50>>, <<50, 51, 50>>,
      <<50, 50, 49>>, <<50, 50, 51>> }

Noise == { <<10, 10, 10>>, <<90, 20, 70>>, <<50, 50, 70>> }

ConvergeRadii == { 4, 5, 6 }

ConvergeInit ==
    /\ \E near \in SUBSET ClusterNeighbours, far \in SUBSET Noise :
          ctl = PylocControl({ClusterCentre} \cup near \cup far)
    /\ ctlPc = CtlControl("idle", "__init__", 0, 0, 0, None)
    /\ clouds = <<>>
    /\ last = NoCall
    /\ CTIdle
    /\ GMIdle
    /\ ViewIdle

\* select_coordinate: select_points_near(coordinate, radius), then
\* center_selection(config['selection_iterations'], radius)
ConvergeNext ==
    \/ \E r \in ConvergeRadii :
          ctlPc.op # "select_points_near" /\ ScanSelectPointsNear(Click, r)
    \/ \E n \in 0..MaxIterations :
          ctlPc.op = "select_points_near" /\ CenterSelectionBegin(n, ctlPc.radius)
    \/ CenterSelectionRound
    \/ CenterSelectionReturn

SpecConverge == ConvergeInit /\ [][ConvergeNext]_vars

Within1(c) ==
    /\ c.n > 0
    /\ Square(c.sum[1] - ClusterCentre[1] * c.n)
          + Square(c.sum[2] - ClusterCentre[2] * c.n)
          + Square(c.sum[3] - ClusterCentre[3] * c.n) <= Square(c.n)

MaxSaves == 2

RtLeadLabels == { "LA", "RST" }

RtThresholds == { 1, 2 }

RtContactLabels == { "1", "2" }

RtSelections ==
    { [center |-> <<50, 50, 50>>, lead_location |-> <<1, 1>>, lead_group |-> 0],
      [center |-> <<51, 50, 49>>, lead_location |-> <<2, 1>>, lead_group |-> 1] }

RtLeadType(label) ==
    IF label = "LA" THEN [type_ |-> "D", dimensions |-> <<2, 1>>]
    ELSE [type_ |-> "G", dimensions |-> <<2, 2>>]

NoContacts == [ c \in {} |-> <<>> ]

\* CT._leads: lead label -> lead; Lead.contacts: contact label -> contact
RtLead(type_, dimensions, contacts) ==
    [type_ |-> type_, dimensions |-> dimensions, contacts |-> contacts]

RtContact(center, lead_location, lead_group) ==
    [center |-> center, lead_location |-> lead_location, lead_group |-> lead_group]

RtCT(filename, threshold, leads) ==
    [isNone |-> FALSE, filename |-> filename, threshold |-> threshold, leads |-> leads]

RtNoCT == [isNone |-> TRUE, filename |-> "", threshold |-> 0, leads |-> NoContacts]

\* to_dict: every lead with its type and dimensions, every localized contact
\* under its full name (lead label followed by contact label) with its
\* centre, group and grid position
contacts_to_dict(label, lead) ==
    { [name |-> label \o c, center |-> lead.contacts[c].center,
       lead_group |-> lead.contacts[c].lead_group,
       lead_loc |-> lead.contacts[c].lead_location] : c \in DOMAIN lead.contacts }

ct_to_dict(scan) ==
    [ label \in DOMAIN scan.leads |->
        [type |-> scan.leads[label].type_,
         dimensions |-> scan.leads[label].dimensions,
         contacts |-> contacts_to_dict(label, scan.leads[label])] ]

\* from_dict: the leads are defined again from the labels, types and
\* dimensions, and every stored contact is added under the contact label
\* that remains when the lead label is taken off its name
contacts_from_dict(label, items) ==
    LET labels == { c \in RtContactLabels : \E item \in items : item.name = label \o c }
        item_of(c) == CHOOSE item \in items : item.name = label \o c
    IN  [ c \in labels |->
            RtContact(item_of(c).center, item_of(c).lead_loc, item_of(c).lead_group) ]

leads_from_dict(input_dict) ==
    [ label \in DOMAIN input_dict |->
        RtLead(input_dict[label].type, input_dict[label].dimensions,
               contacts_from_dict(label, input_dict[label].contacts)) ]

NoFile == [exists |-> FALSE, ct_file |-> "", threshold |-> 0, leads |-> NoContacts, timestamp |-> 0]

auto_save_state_without_leads(self, timestamp) ==
    [exists |-> TRUE, ct_file |-> self.ct.filename, threshold |-> self.ct.threshold,
     leads |-> NoContacts, timestamp |-> timestamp]

\* auto_save_state: the state dictionary written to AUTOSAVE_FILE
auto_save_state(self, timestamp) ==
    [exists |-> TRUE, ct_file |-> self.ct.filename, threshold |-> self.ct.threshold,
     leads |-> ct_to_dict(self.ct), timestamp |-> timestamp]

RtControl(pc, state, written) == [pc |-> pc, state |-> state, written |-> written]

\* back in the event loop: the dictionary read at start-up is dropped
RtRunning == [ctlPc EXCEPT !.pc = "running", !.state = NoFile]

RoundTripInit ==
    /\ ctl = [ct |-> RtNoCT, file |-> NoFile]
    /\ ctlPc = RtControl("running", NoFile, NoContacts)
    /\ clouds = <<>>
    /\ last = NoCall
    /\ CTIdle
    /\ GMIdle
    /\ ViewIdle

\* load_ct followed by set_leads from the lead definition dialog
RtLoadCT(threshold, labels) ==
    /\ ctlPc.pc \in {"running", "recovered"}
    /\ ctl' = [ctl EXCEPT !.ct = RtCT("scan.nii", threshold,
                 [ label \in labels |->
                     RtLead(RtLeadType(label).type_, RtLeadType(label).dimensions,
                            NoContacts) ])]
    /\ ctlPc' = RtRunning
    /\ CtlFrame

RtAddSelectionToLead(label, contact_label, center, lead_location, lead_group) ==
    /\ ctlPc.pc \in {"running", "recovered"}
    /\ ~ctl.ct.isNone
    /\ label \in DOMAIN ctl.ct.leads
    /\ ctl' = [ctl EXCEPT !.ct.leads[label].contacts =
                 [ c \in DOMAIN @ \cup {contact_label} |->
                     IF c = contact_label
                     THEN RtContact(center, lead_location, lead_group)
                     ELSE @[c] ]]
    /\ ctlPc' = RtRunning
    /\ CtlFrame

RtDeleteContact(label, contact_label) ==
    /\ ctlPc.pc \in {"running", "recovered"}
    /\ ~ctl.ct.isNone
    /\ label \in DOMAIN ctl.ct.leads
    /\ contact_label \in DOMAIN ctl.ct.leads[label].contacts
    /\ ctl' = [ctl EXCEPT !.ct.leads[label].contacts =
                 [ c \in DOMAIN @ \ {contact_label} |-> @[c] ]]
    /\ ctlPc' = RtRunning
    /\ CtlFrame

\* the autosave timer fires between two handlers; without a CT it returns
RtAutoSaveState ==
    /\ ctlPc.pc \in {"running", "recovered"}
    /\ ctl.file.timestamp < MaxSaves
    /\ IF ctl.ct.isNone
       THEN UNCHANGED <<ctl, ctlPc>>
       ELSE /\ ctl' = [ctl EXCEPT !.file = auto_save_state(ctl, ctl.file.timestamp + 1)]
            /\ ctlPc' = [RtRunning EXCEPT !.written = ctl.ct.leads]
    /\ CtlFrame

\* the program is closed and started again; the file stays on disk
RtRestart ==
    /\ ctlPc.pc \in {"running", "recovered"}
    /\ ctl' = [ctl EXCEPT !.ct = RtNoCT]
    /\ ctlPc' = [ctlPc EXCEPT !.pc = "start", !.state = NoFile]
    /\ CtlFrame

\* try_recover_state: os.path.exists and json.load
RtRecoverOpen ==
    /\ ctlPc.pc = "start"
    /\ ctlPc' = IF ctl.file.exists
                THEN [ctlPc EXCEPT !.pc = "question", !.state = ctl.file]
                ELSE [ctlPc EXCEPT !.pc = "running"]
    /\ UNCHANGED ctl
    /\ CtlFrame

\* the recovery question; the timer may fire while it is open, and returns
\* at once because no CT is loaded yet
RtRecoverQuestion(reply) ==
    /\ ctlPc.pc = "question"
    /\ ctlPc' = IF reply THEN [ctlPc EXCEPT !.pc = "replay"] ELSE RtRunning
    /\ UNCHANGED ctl
    /\ CtlFrame

\* load_ct, set_threshold and from_dict when the CT file is still there
RtRecoverReplay(ct_file_exists) ==
    /\ ctlPc.pc = "replay"
    /\ IF ct_file_exists
       THEN /\ ctl' = [ctl EXCEPT !.ct = RtCT(ctlPc.state.ct_file, ctlPc.state.threshold,
                                            leads_from_dict(ctlPc.state.leads))]
            /\ ctlPc' = [ctlPc EXCEPT !.pc = "recovered"]
       ELSE /\ ctlPc' = RtRunning
            /\ UNCHANGED ctl
    /\ CtlFrame

RoundTripNext ==
    \/ \E threshold \in RtThresholds : RtLoadCT(threshold, RtLeadLabels)
    \/ \E label \in RtLeadLabels, c \in RtContactLabels, s \in RtSelections :
          RtAddSelectionToLead(label, c, s.center, s.lead_location, s.lead_group)
    \/ \E label \in RtLeadLabels, c \in RtContactLabels : RtDeleteContact(label, c)
    \/ RtAutoSaveState
    \/ RtRestart
    \/ RtRecoverOpen
    \/ \E reply \in BOOLEAN : RtRecoverQuestion(reply)
    \/ \E ct_file_exists \in BOOLEAN : RtRecoverReplay(ct_file_exists)

SpecRoundTrip == RoundTripInit /\ [][RoundTripNext]_vars

====
